---- MODULE Spec2Model ----
(***************************************************************************)
(* Formula subsystem of the spreadsheet runtime: FormulaUtils (reference   *)
(* algebra), FormulaParser, FormulaEngine and FormulaManager.              *)
(*                                                                         *)
(* Formula text is a sequence of one-character strings.  A tree node is a  *)
(* record with a "type" field, as in FormulaAST.ts.  A registry key        *)
(* "row:col" is the pair <<row, col>>.  A function that can throw returns  *)
(* a record with an "ok" field; ok = FALSE carries the thrown message.     *)
(***************************************************************************)
EXTENDS Integers, Sequences, FiniteSets, TLC

(***************************************************************************)
(* Bounds of the model.                                                    *)
(***************************************************************************)
\* Largest row / column index a key or a reference may reach (insertions
\* that would push one past it are not taken).
MaxCoord == 1
\* Largest number of formulas held in the registry.
MaxFormulas == 2

MaxBlockSize == 2
\* Numbers of rows and of columns of the virtual grid.
MaxGridSize == 3
\* Largest canvas width and height, and largest cell width and height.
MaxCanvasSize == 2
\* Largest number of cell arrays getVisibleCells builds in one behaviour.
MaxArrays == 3
\* Number of nested evaluateFormula calls the call stack of the JavaScript
\* engine holds.
MaxStack == 4

(***************************************************************************)
(* Characters.                                                             *)
(***************************************************************************)
UpperLetters ==
  << "A", "B", "C", "D", "E", "F", "G", "H", "I", "J", "K", "L", "M",
     "N", "O", "P", "Q", "R", "S", "T", "U", "V", "W", "X", "Y", "Z" >>

LowerLetters ==
  << "a", "b", "c", "d", "e", "f", "g", "h", "i", "j", "k", "l", "m",
     "n", "o", "p", "q", "r", "s", "t", "u", "v", "w", "x", "y", "z" >>

DigitChars == << "0", "1", "2", "3", "4", "5", "6", "7", "8", "9" >>

\* The character currentChar() returns at the end of the input.
NUL == "\\0"

Range(s) == { s[i] : i \in 1..Len(s) }

IndexOf(s, ch) == CHOOSE i \in 1..Len(s) : s[i] = ch

isUpper(ch) == ch \in Range(UpperLetters)

isDigit(ch) == ch \in Range(DigitChars)

isAlpha(ch) == ch \in Range(LowerLetters) \/ ch \in Range(UpperLetters)

\* charCodeAt(i) - 64 of an upper-case letter.
letterOrdinal(ch) == IndexOf(UpperLetters, ch)

digitValue(ch) == IndexOf(DigitChars, ch) - 1

toUpperChar(ch) ==
  IF ch \in Range(LowerLetters) THEN UpperLetters[IndexOf(LowerLetters, ch)] ELSE ch

toUpperCase(s) == [ i \in 1..Len(s) |-> toUpperChar(s[i]) ]

\* An optional numeric parameter (insertRow?, deleteRow?, ...).
None == [ def |-> FALSE, v |-> 0 ]

Some(k) == [ def |-> TRUE, v |-> k ]

(***************************************************************************)
(* FormulaUtils.                                                           *)
(***************************************************************************)
RECURSIVE indexToColumnLetterLoop(_, _)
indexToColumnLetterLoop(index, result) ==
  IF index >= 0
  THEN indexToColumnLetterLoop((index \div 26) - 1,
                               << UpperLetters[(index % 26) + 1] >> \o result)
  ELSE result

indexToColumnLetter(index) == indexToColumnLetterLoop(index, << >>)

RECURSIVE columnLetterToIndexLoop(_, _, _)
columnLetterToIndexLoop(letter, i, result) ==
  IF i > Len(letter) THEN result
  ELSE columnLetterToIndexLoop(letter, i + 1, result * 26 + letterOrdinal(letter[i]))

columnLetterToIndex(letter) == columnLetterToIndexLoop(letter, 1, 0) - 1

\* parseInt(s, 10) of a non-empty digit string.
RECURSIVE parseIntLoop(_, _, _)
parseIntLoop(s, i, acc) ==
  IF i > Len(s) THEN acc ELSE parseIntLoop(s, i + 1, acc * 10 + digitValue(s[i]))

parseInt(s) == parseIntLoop(s, 1, 0)

\* n.toString() of a non-negative integer n.
RECURSIVE natToStringLoop(_, _)
natToStringLoop(n, acc) ==
  IF n < 10 THEN << DigitChars[n + 1] >> \o acc
  ELSE natToStringLoop(n \div 10, << DigitChars[(n % 10) + 1] >> \o acc)

intToString(n) ==
  IF n < 0 THEN << "-" >> \o natToStringLoop(-n, << >>) ELSE natToStringLoop(n, << >>)

\* Number of consecutive characters of s from position i on that satisfy
\* the class (letters = TRUE: [A-Z], letters = FALSE: \d).
RECURSIVE runLength(_, _, _)
runLength(s, i, letters) ==
  IF i > Len(s) THEN 0
  ELSE IF (letters /\ isUpper(s[i])) \/ (~letters /\ isDigit(s[i]))
       THEN 1 + runLength(s, i + 1, letters)
       ELSE 0

\* FormulaUtils.parseCellReference: ref matched against
\* /^(\$?)([A-Z]+)(\$?)(\d+)$/.
parseCellReferenceUtil(ref) ==
  LET dollarCol == Len(ref) >= 1 /\ ref[1] = "$"
      i1 == IF dollarCol THEN 2 ELSE 1
      nL == runLength(ref, i1, TRUE)
      i2 == i1 + nL
      dollarRow == i2 <= Len(ref) /\ ref[i2] = "$"
      i3 == IF dollarRow THEN i2 + 1 ELSE i2
      nD == runLength(ref, i3, FALSE)
  IN IF nL >= 1 /\ nD >= 1 /\ i3 + nD = Len(ref) + 1
     THEN [ ok |-> TRUE,
            node |-> [ type |-> "cell",
                       row |-> parseInt(SubSeq(ref, i3, Len(ref))) - 1,
                       col |-> columnLetterToIndex(SubSeq(ref, i1, i2 - 1)),
                       absoluteRow |-> dollarRow,
                       absoluteCol |-> dollarCol ] ]
     ELSE [ ok |-> FALSE, msg |-> << "bad cell reference: " >> \o ref ]

formatCellReference(cell) ==
  (IF cell.absoluteCol THEN << "$" >> ELSE << >>)
    \o indexToColumnLetter(cell.col)
    \o (IF cell.absoluteRow THEN << "$" >> ELSE << >>)
    \o intToString(cell.row + 1)

rangeStart(range) ==
  [ type |-> "cell", row |-> range.startRow, col |-> range.startCol,
    absoluteRow |-> range.absoluteStartRow, absoluteCol |-> range.absoluteStartCol ]

rangeEnd(range) ==
  [ type |-> "cell", row |-> range.endRow, col |-> range.endCol,
    absoluteRow |-> range.absoluteEndRow, absoluteCol |-> range.absoluteEndCol ]

formatCellRange(range) ==
  formatCellReference(rangeStart(range)) \o << ":" >> \o formatCellReference(rangeEnd(range))

\* The message of the Error thrown for a reference to a deleted line: the
\* literal prefix of the source (in Russian, "reference to deleted cell: ")
\* followed by formatCellReference(cell).
DanglingMsg(cell) == << "reference to deleted cell: " >> \o formatCellReference(cell)

\* The row (axis = "row") or column part of shiftCellReference: the new
\* index, or a throw when the index sits on the deleted line.
\* A variant whose insertion moves only the indices beyond the inserted line.
shiftAxisBeyond(index, absolute, offset, insert, delete) ==
  IF absolute THEN [ ok |-> TRUE, v |-> index ]
  ELSE LET afterInsert == IF insert.def /\ index > insert.v THEN index + 1 ELSE index
       IN IF delete.def /\ afterInsert > delete.v
          THEN [ ok |-> TRUE, v |-> afterInsert - 1 + offset ]
          ELSE IF delete.def /\ afterInsert = delete.v
               THEN [ ok |-> FALSE, v |-> index ]
               ELSE [ ok |-> TRUE, v |-> afterInsert + offset ]

\* A variant that keeps an index on the deleted line instead of throwing.
shiftAxisKeeping(index, absolute, offset, insert, delete) ==
  IF absolute THEN [ ok |-> TRUE, v |-> index ]
  ELSE LET afterInsert == IF insert.def /\ index >= insert.v THEN index + 1 ELSE index
       IN IF delete.def /\ afterInsert > delete.v
          THEN [ ok |-> TRUE, v |-> afterInsert - 1 + offset ]
          ELSE [ ok |-> TRUE, v |-> afterInsert + offset ]

shiftAxis(index, absolute, offset, insert, delete) ==
  IF absolute THEN [ ok |-> TRUE, v |-> index ]
  ELSE LET afterInsert == IF insert.def /\ index >= insert.v THEN index + 1 ELSE index
       IN IF delete.def /\ afterInsert > delete.v
          THEN [ ok |-> TRUE, v |-> afterInsert - 1 + offset ]
          ELSE IF delete.def /\ afterInsert = delete.v
               THEN [ ok |-> FALSE, v |-> index ]
               ELSE [ ok |-> TRUE, v |-> afterInsert + offset ]

shiftCellReference(cell, rowOffset, colOffset, insertRow, insertCol, deleteRow, deleteCol) ==
  LET r == shiftAxis(cell.row, cell.absoluteRow, rowOffset, insertRow, deleteRow)
      c == shiftAxis(cell.col, cell.absoluteCol, colOffset, insertCol, deleteCol)
  IN IF ~r.ok \/ ~c.ok
     THEN [ ok |-> FALSE, msg |-> DanglingMsg(cell) ]
     ELSE [ ok |-> TRUE, node |-> [ cell EXCEPT !.row = r.v, !.col = c.v ] ]

shiftCellRange(range, rowOffset, colOffset, insertRow, insertCol, deleteRow, deleteCol) ==
  LET start == shiftCellReference(rangeStart(range), rowOffset, colOffset,
                                  insertRow, insertCol, deleteRow, deleteCol)
      end == shiftCellReference(rangeEnd(range), rowOffset, colOffset,
                                insertRow, insertCol, deleteRow, deleteCol)
  IN IF ~start.ok THEN start
     ELSE IF ~end.ok THEN end
     ELSE [ ok |-> TRUE,
            node |-> [ range EXCEPT !.startRow = start.node.row,
                                    !.startCol = start.node.col,
                                    !.endRow = end.node.row,
                                    !.endCol = end.node.col ] ]

(***************************************************************************)
(* Numbers.  A JavaScript number is modelled as a fraction in lowest terms *)
(* [num, den] with den > 0.                                                *)
(***************************************************************************)
RECURSIVE gcd(_, _)
gcd(a, b) == IF b = 0 THEN a ELSE gcd(b, a % b)

abs(a) == IF a < 0 THEN -a ELSE a

Frac(n, d) ==
  LET g == gcd(abs(n), abs(d))
      s == IF d < 0 THEN -1 ELSE 1
  IN [ num |-> (s * n) \div g, den |-> (s * d) \div g ]

Num(n) == [ num |-> n, den |-> 1 ]

RECURSIVE pow10(_)
pow10(k) == IF k = 0 THEN 1 ELSE 10 * pow10(k - 1)

\* parseFloat of a string of digits and dots that starts with a digit: the
\* longest prefix of the shape digits[.digits].
parseFloat(s) ==
  LET nI == runLength(s, 1, FALSE)
      hasDot == nI + 1 <= Len(s) /\ s[nI + 1] = "."
      nF == IF hasDot THEN runLength(s, nI + 2, FALSE) ELSE 0
      int == parseInt(SubSeq(s, 1, nI))
      frac == IF nF = 0 THEN 0 ELSE parseInt(SubSeq(s, nI + 2, nI + 1 + nF))
  IN Frac(int * pow10(nF) + frac, pow10(nF))

\* Smallest k with den dividing 10^k (den divides a power of ten for every
\* number that parseFloat returns).
RECURSIVE decimals(_, _)
decimals(den, k) == IF pow10(k) % den = 0 THEN k ELSE decimals(den, k + 1)

RECURSIVE padLeft(_, _)
padLeft(s, k) == IF Len(s) >= k THEN s ELSE padLeft(<< "0" >> \o s, k)

\* Number.prototype.toString of a non-negative number in plain decimal
\* notation.
numberToString(v) ==
  IF v.den = 1 THEN intToString(v.num)
  ELSE LET k == decimals(v.den, 0)
           scaled == (v.num * pow10(k)) \div v.den
       IN intToString(scaled \div pow10(k)) \o << "." >>
            \o padLeft(intToString(scaled % pow10(k)), k)

(***************************************************************************)
(* FormulaParser.  The parser's position is passed along: every parse      *)
(* function takes the input and the position (0-based) and returns         *)
(* [ok, node, pos], or [ok = FALSE, msg, pos] when it throws.              *)
(***************************************************************************)
isAtEnd(inp, pos) == pos >= Len(inp)

currentChar(inp, pos) == IF isAtEnd(inp, pos) THEN NUL ELSE inp[pos + 1]

\* input.substring(from, to)
substring(inp, from, to) ==
  SubSeq(inp, from + 1, IF to > Len(inp) THEN Len(inp) ELSE to)

check(inp, pos, expected) ==
  IF isAtEnd(inp, pos) THEN FALSE
  ELSE substring(inp, pos, pos + Len(expected)) = expected

advance(inp, pos) == IF ~isAtEnd(inp, pos) THEN pos + 1 ELSE pos

\* match(tokens): the first token of the list that check() accepts wins,
\* and advance() then moves the position by one character.
RECURSIVE matchFrom(_, _, _, _)
matchFrom(inp, pos, tokens, i) ==
  IF i > Len(tokens) THEN [ matched |-> FALSE, pos |-> pos ]
  ELSE IF check(inp, pos, tokens[i])
       THEN [ matched |-> TRUE, pos |-> advance(inp, pos) ]
       ELSE matchFrom(inp, pos, tokens, i + 1)

match(inp, pos, tokens) == matchFrom(inp, pos, tokens, 1)

previousToken(inp, pos) == IF pos >= 1 /\ pos <= Len(inp) THEN inp[pos] ELSE ""

createError(message, pos) == [ ok |-> FALSE, msg |-> message, pos |-> pos ]

ComparisonTokens ==
  << << "=" >>, << "<" >>, << ">" >>, << "<", "=" >>, << ">", "=" >>, << "<", ">" >> >>

AdditionTokens == << << "+" >>, << "-" >> >>

MultiplicationTokens == << << "*" >>, << "/" >> >>

ExponentiationTokens == << << "^" >> >>

RECURSIVE parseIdentifierLoop(_, _, _)
parseIdentifierLoop(inp, pos, identifier) ==
  IF isAlpha(currentChar(inp, pos)) \/ isDigit(currentChar(inp, pos))
  THEN parseIdentifierLoop(inp, advance(inp, pos), Append(identifier, currentChar(inp, pos)))
  ELSE [ name |-> identifier, pos |-> pos ]

parseIdentifier(inp, pos) == parseIdentifierLoop(inp, pos, << >>)

RECURSIVE parseNumberLoop(_, _, _)
parseNumberLoop(inp, pos, value) ==
  IF isDigit(currentChar(inp, pos)) \/ currentChar(inp, pos) = "."
  THEN parseNumberLoop(inp, advance(inp, pos), Append(value, currentChar(inp, pos)))
  ELSE [ value |-> value, pos |-> pos ]

\* Entered only on a digit, so parseFloat never yields NaN here.
parseNumber(inp, pos) ==
  LET r == parseNumberLoop(inp, pos, << >>)
  IN [ ok |-> TRUE, node |-> [ type |-> "number", value |-> parseFloat(r.value) ],
       pos |-> r.pos ]

RECURSIVE parseStringLoop(_, _, _)
parseStringLoop(inp, pos, value) ==
  IF currentChar(inp, pos) # "\"" /\ ~isAtEnd(inp, pos)
  THEN IF currentChar(inp, pos) = "\\"
       THEN LET p1 == advance(inp, pos)
            IN IF isAtEnd(inp, p1)
               THEN createError(<< "unfinished escape sequence" >>, p1)
               ELSE parseStringLoop(inp, advance(inp, p1),
                                    Append(value, currentChar(inp, p1)))
       ELSE parseStringLoop(inp, advance(inp, pos), Append(value, currentChar(inp, pos)))
  ELSE [ ok |-> TRUE, value |-> value, pos |-> pos ]

parseString(inp, pos) ==
  IF ~check(inp, pos, << "\"" >>) THEN createError(<< "opening quote expected" >>, pos)
  ELSE LET r == parseStringLoop(inp, advance(inp, pos), << >>)
       IN IF ~r.ok THEN r
          ELSE IF ~check(inp, r.pos, << "\"" >>)
               THEN createError(<< "closing quote expected" >>, r.pos)
               ELSE [ ok |-> TRUE, node |-> [ type |-> "string", value |-> r.value ],
                      pos |-> advance(inp, r.pos) ]

RECURSIVE parseCellReferenceLoop(_, _, _)
parseCellReferenceLoop(inp, pos, ref) ==
  IF isAlpha(currentChar(inp, pos)) \/ isDigit(currentChar(inp, pos))
       \/ currentChar(inp, pos) = "$"
  THEN parseCellReferenceLoop(inp, advance(inp, pos), Append(ref, currentChar(inp, pos)))
  ELSE [ ref |-> ref, pos |-> pos ]

parseCellReference(prefix, inp, pos) ==
  LET r == parseCellReferenceLoop(inp, pos, prefix)
      cell == parseCellReferenceUtil(r.ref)
  IN IF cell.ok THEN [ ok |-> TRUE, node |-> cell.node, pos |-> r.pos ]
     ELSE createError(cell.msg, r.pos)

BinaryNode(operator, left, right) ==
  [ type |-> "binary", operator |-> operator, left |-> left, right |-> right ]

\* The four binary levels of the grammar have one shape: parse an operand
\* of the next level, then loop while match() accepts one of the level's
\* tokens.  level names the function: "comparison", "addition",
\* "multiplication" or "exponentiation".
LevelTokens(level) ==
  CASE level = "comparison" -> ComparisonTokens
    [] level = "addition" -> AdditionTokens
    [] level = "multiplication" -> MultiplicationTokens
    [] level = "exponentiation" -> ExponentiationTokens

RECURSIVE parseExpression(_, _)
RECURSIVE parseLevel(_, _, _)
RECURSIVE parseLevelLoop(_, _, _, _)
RECURSIVE parseUnary(_, _)
RECURSIVE parsePrimary(_, _)
RECURSIVE parseFunction(_, _, _)
RECURSIVE parseArguments(_, _, _)

\* A variant without levels: the operand of every level is a unary
\* expression.
parseOperandFlat(level, inp, pos) == parseUnary(inp, pos)

\* The operand of a level: parseAddition for parseComparison, ...,
\* parseUnary for parseExponentiation.
parseOperand(level, inp, pos) ==
  CASE level = "comparison" -> parseLevel("addition", inp, pos)
    [] level = "addition" -> parseLevel("multiplication", inp, pos)
    [] level = "multiplication" -> parseLevel("exponentiation", inp, pos)
    [] level = "exponentiation" -> parseUnary(inp, pos)

\* `left = { type: 'binary', operator, left, right }` and the next round of
\* the while loop, once the right operand is parsed.
levelJoin(level, inp, left, operator, right) ==
  IF ~right.ok THEN right
  ELSE parseLevelLoop(level, inp, BinaryNode(operator, left, right.node), right.pos)

\* One round of the while loop, m being the result of match().
levelStep(level, inp, left, pos, m) ==
  IF ~m.matched THEN [ ok |-> TRUE, node |-> left, pos |-> pos ]
  ELSE levelJoin(level, inp, left, previousToken(inp, m.pos), parseOperand(level, inp, m.pos))

parseLevelLoop(level, inp, left, pos) ==
  levelStep(level, inp, left, pos, match(inp, pos, LevelTokens(level)))

levelStart(level, inp, left) ==
  IF ~left.ok THEN left ELSE parseLevelLoop(level, inp, left.node, left.pos)

parseLevel(level, inp, pos) == levelStart(level, inp, parseOperand(level, inp, pos))

parseComparison(inp, pos) == parseLevel("comparison", inp, pos)

parseAddition(inp, pos) == parseLevel("addition", inp, pos)

parseMultiplication(inp, pos) == parseLevel("multiplication", inp, pos)

parseExponentiation(inp, pos) == parseLevel("exponentiation", inp, pos)

\* parseRange once both operands of ':' are parsed.
\* A variant that joins operands that are not cell references as a
\* binary node.
rangeJoinAny(left, right) ==
  IF ~right.ok THEN right
  ELSE IF left.node.type = "cell" /\ right.node.type = "cell"
       THEN [ ok |-> TRUE,
              node |-> [ type |-> "range",
                         startRow |-> left.node.row,
                         startCol |-> left.node.col,
                         endRow |-> right.node.row,
                         endCol |-> right.node.col,
                         absoluteStartRow |-> left.node.absoluteRow,
                         absoluteStartCol |-> left.node.absoluteCol,
                         absoluteEndRow |-> right.node.absoluteRow,
                         absoluteEndCol |-> right.node.absoluteCol ],
              pos |-> right.pos ]
       ELSE [ ok |-> TRUE, node |-> BinaryNode(":", left.node, right.node),
              pos |-> right.pos ]

rangeJoin(left, right) ==
  IF ~right.ok THEN right
  ELSE IF left.node.type = "cell" /\ right.node.type = "cell"
       THEN [ ok |-> TRUE,
              node |-> [ type |-> "range",
                         startRow |-> left.node.row,
                         startCol |-> left.node.col,
                         endRow |-> right.node.row,
                         endCol |-> right.node.col,
                         absoluteStartRow |-> left.node.absoluteRow,
                         absoluteStartCol |-> left.node.absoluteCol,
                         absoluteEndRow |-> right.node.absoluteRow,
                         absoluteEndCol |-> right.node.absoluteCol ],
              pos |-> right.pos ]
       ELSE createError(<< "a range may hold only cell references" >>, right.pos)

rangeStep(inp, left, m) ==
  IF ~m.matched THEN left ELSE rangeJoin(left, parseLevel("comparison", inp, m.pos))

rangeAfterLeft(inp, left) ==
  IF ~left.ok THEN left ELSE rangeStep(inp, left, match(inp, left.pos, << << ":" >> >>))

parseRange(inp, pos) == rangeAfterLeft(inp, parseLevel("comparison", inp, pos))

parseExpression(inp, pos) == parseRange(inp, pos)

unaryJoin(operator, operand) ==
  IF ~operand.ok THEN operand
  ELSE [ ok |-> TRUE,
         node |-> [ type |-> "unary", operator |-> operator, operand |-> operand.node ],
         pos |-> operand.pos ]

unaryStep(inp, pos, m) ==
  IF m.matched THEN unaryJoin(previousToken(inp, m.pos), parseUnary(inp, m.pos))
  ELSE parsePrimary(inp, pos)

parseUnary(inp, pos) == unaryStep(inp, pos, match(inp, pos, AdditionTokens))

\* `consume(')')` after a parenthesised expression.
closeParenthesis(inp, expr) ==
  IF ~expr.ok THEN expr
  ELSE IF check(inp, expr.pos, << ")" >>)
       THEN [ expr EXCEPT !.pos = advance(inp, expr.pos) ]
       ELSE createError(<< "closing parenthesis expected" >>, expr.pos)

\* An identifier has been read: a function call if '(' follows, a cell
\* reference otherwise.
afterIdentifier(inp, id) ==
  IF currentChar(inp, id.pos) = "("
  THEN parseFunction(id.name, inp, id.pos)
  ELSE parseCellReference(id.name, inp, id.pos)

afterDollar(inp, id) == parseCellReference(<< "$" >> \o id.name, inp, id.pos)

parsePrimary(inp, pos) ==
  CASE isDigit(currentChar(inp, pos)) -> parseNumber(inp, pos)
    [] currentChar(inp, pos) = "\"" -> parseString(inp, pos)
    [] isAlpha(currentChar(inp, pos)) -> afterIdentifier(inp, parseIdentifier(inp, pos))
    [] currentChar(inp, pos) = "$" ->
         afterDollar(inp, parseIdentifier(inp, advance(inp, pos)))
    [] currentChar(inp, pos) = "(" ->
         closeParenthesis(inp, parseExpression(inp, advance(inp, pos)))
    [] OTHER -> createError(<< "unexpected character" >>, pos)

argumentsStep(inp, args, expr, m) ==
  IF m.matched THEN parseArguments(inp, m.pos, Append(args, expr.node))
  ELSE [ ok |-> TRUE, args |-> Append(args, expr.node), pos |-> expr.pos ]

argumentsJoin(inp, args, expr) ==
  IF ~expr.ok THEN expr
  ELSE argumentsStep(inp, args, expr, match(inp, expr.pos, << << "," >> >>))

\* The do-while loop of parseFunction that collects the arguments.
parseArguments(inp, pos, args) == argumentsJoin(inp, args, parseExpression(inp, pos))

functionJoin(name, inp, r) ==
  IF ~r.ok THEN r
  ELSE IF ~check(inp, r.pos, << ")" >>)
       THEN createError(<< "closing parenthesis expected" >>, r.pos)
       ELSE [ ok |-> TRUE,
              node |-> [ type |-> "function", name |-> toUpperCase(name), args |-> r.args ],
              pos |-> advance(inp, r.pos) ]

parseFunction(name, inp, pos) ==
  IF ~check(inp, pos, << "(" >>)
  THEN createError(<< "opening parenthesis expected after the function name" >>, pos)
  ELSE functionJoin(name, inp,
                    IF currentChar(inp, advance(inp, pos)) # ")"
                    THEN parseArguments(inp, advance(inp, pos), << >>)
                    ELSE [ ok |-> TRUE, args |-> << >>, pos |-> advance(inp, pos) ])

\* parse() once parseExpression has returned.
parseJoin(formula, inp, root) ==
  IF ~root.ok THEN [ ok |-> FALSE, msg |-> root.msg ]
  ELSE IF root.pos < Len(inp)
       THEN [ ok |-> FALSE, msg |-> << "unexpected character" >> ]
       ELSE [ ok |-> TRUE, ast |-> [ root |-> root.node, originalFormula |-> formula ] ]

\* FormulaParser.parse: [ok, ast], or [ok = FALSE, msg] when it throws.
parse(formula) ==
  IF ~(Len(formula) >= 1 /\ formula[1] = "=")
  THEN [ ok |-> FALSE, msg |-> << "a formula must start with =" >> ]
  ELSE parseJoin(formula, Tail(formula), parseExpression(Tail(formula), 0))

(***************************************************************************)
(* The formula texts the model passes to setFormula.                       *)
(***************************************************************************)
TextSumRange == << "=", "S", "U", "M", "(", "A", "1", ":", "B", "2", ")" >>

TextInvalid == << "=", "I", "N", "V", "A", "L", "I", "D", "(", "A", "1", ")" >>

TextUnclosed == << "=", "S", "U", "M", "(", "A", "1" >>

TextNoSigil == << "A", "1" >>

TextAbsolute == << "=", "$", "A", "$", "1", "+", "B", "1" >>

TextMixedRange == << "=", "m", "a", "x", "(", "A", "$", "1", ":", "$", "B", "1", ")" >>

TextRef == << "=", "-", "B", "1" >>

Texts == { TextSumRange, TextInvalid, TextUnclosed, TextNoSigil, TextAbsolute,
           TextMixedRange, TextRef }

(***************************************************************************)
(* The formula texts the model evaluates and formats: divisions, COUNT and *)
(* the aggregates over A1:B2, the six comparisons, and texts with          *)
(* parentheses, unary operators and string literals.                       *)
(***************************************************************************)
\* =A1/0
TextDivZero == << "=", "A", "1", "/", "0" >>

\* =A1/2
TextDivTwo == << "=", "A", "1", "/", "2" >>

\* =A1/B1
TextDivCell == << "=", "A", "1", "/", "B", "1" >>

\* =A1/"x"
TextDivString == << "=", "A", "1", "/", "\"", "x", "\"" >>

\* =A1/"2"
TextDivNumericString == << "=", "A", "1", "/", "\"", "2", "\"" >>

\* =A1/"0"
TextDivZeroString == << "=", "A", "1", "/", "\"", "0", "\"" >>

\* =1/(A1<B1)
TextDivComparison == << "=", "1", "/", "(", "A", "1", "<", "B", "1", ")" >>

\* =1/(A1:B2)
TextDivRange == << "=", "1", "/", "(", "A", "1", ":", "B", "2", ")" >>

\* =COUNT(A1:B2)
TextCountRange == << "=", "C", "O", "U", "N", "T", "(", "A", "1", ":", "B", "2", ")" >>

\* =COUNT(A1,"x",2)
TextCountScalars ==
  << "=", "C", "O", "U", "N", "T", "(", "A",
     "1", ",", "\"", "x", "\"", ",", "2", ")" >>

\* =COUNT(A1:B2,A1)
TextCountBoth ==
  << "=", "C", "O", "U", "N", "T", "(", "A",
     "1", ":", "B", "2", ",", "A", "1", ")" >>

\* =MIN(A1:B2)
TextMinRange == << "=", "M", "I", "N", "(", "A", "1", ":", "B", "2", ")" >>

\* =MAX(A1:B2)
TextMaxRange == << "=", "M", "A", "X", "(", "A", "1", ":", "B", "2", ")" >>

\* =AVERAGE(A1:B2)
TextAverageRange ==
  << "=", "A", "V", "E", "R", "A", "G",
     "E", "(", "A", "1", ":", "B", "2", ")" >>

\* =A1=B1
TextEqual == << "=", "A", "1", "=", "B", "1" >>

\* =A1<B1
TextLess == << "=", "A", "1", "<", "B", "1" >>

\* =A1>B1
TextGreater == << "=", "A", "1", ">", "B", "1" >>

\* =A1<=B1
TextLessEqual == << "=", "A", "1", "<", "=", "B", "1" >>

\* =A1>=B1
TextGreaterEqual == << "=", "A", "1", ">", "=", "B", "1" >>

\* =A1<>B1
TextNotEqual == << "=", "A", "1", "<", ">", "B", "1" >>

\* =(A1+B1)*2
TextParenthesised == << "=", "(", "A", "1", "+", "B", "1", ")", "*", "2" >>

\* =-(A1+B1)
TextUnaryParenthesised == << "=", "-", "(", "A", "1", "+", "B", "1", ")" >>

\* ="a\"b"
TextEscapedQuote == << "=", "\"", "a", "\\", "\"", "b", "\"" >>

\* =A1+B1*2
TextPrecedence == << "=", "A", "1", "+", "B", "1", "*", "2" >>

\* =1.5+A1
TextDecimal == << "=", "1", ".", "5", "+", "A", "1" >>

\* ="ab"
TextString == << "=", "\"", "a", "b", "\"" >>

EngineTexts ==
  { TextSumRange, TextDivZero, TextDivTwo, TextDivCell, TextDivString,
    TextDivNumericString, TextDivZeroString, TextDivComparison,
    TextDivRange, TextCountRange, TextCountScalars, TextCountBoth,
    TextMinRange, TextMaxRange, TextAverageRange, TextEqual, TextLess,
    TextGreater, TextLessEqual, TextGreaterEqual, TextNotEqual,
    TextParenthesised, TextUnaryParenthesised, TextEscapedQuote,
    TextPrecedence, TextDecimal, TextString }

\* =A0
TextRowZero == << "=", "A", "0" >>

\* =B1
TextB1 == << "=", "B", "1" >>

\* =A1
TextA1 == << "=", "A", "1" >>

\* =A2
TextA2 == << "=", "A", "2" >>

\* =A1*B1^2
TextMulPow == << "=", "A", "1", "*", "B", "1", "^", "2" >>

\* =A1=B1+2
TextEqualSum == << "=", "A", "1", "=", "B", "1", "+", "2" >>

\* =A1-B1-2
TextLeftSubtraction == << "=", "A", "1", "-", "B", "1", "-", "2" >>

\* =A1/B1/2
TextLeftDivision == << "=", "A", "1", "/", "B", "1", "/", "2" >>

\* =A1^B1^2
TextPowPow == << "=", "A", "1", "^", "B", "1", "^", "2" >>

\* =-A1^2
TextUnaryPow == << "=", "-", "A", "1", "^", "2" >>

\* ="ab
TextUnterminatedString == << "=", "\"", "a", "b" >>

\* =(A1+B1
TextUnmatchedOpen == << "=", "(", "A", "1", "+", "B", "1" >>

\* =A1+B1)
TextUnmatchedClose == << "=", "A", "1", "+", "B", "1", ")" >>

\* =A1B
TextMalformedRef == << "=", "A", "1", "B" >>

\* =AB
TextLettersOnly == << "=", "A", "B" >>

\* =a1
TextLowerCaseRef == << "=", "a", "1" >>

\* =A1 B1
TextTrailing == << "=", "A", "1", " ", "B", "1" >>

\* =1:B2
TextRangeLeftNumber == << "=", "1", ":", "B", "2" >>

\* =A1:2
TextRangeRightNumber == << "=", "A", "1", ":", "2" >>

\* =A1:B1+1
TextRangeRightSum == << "=", "A", "1", ":", "B", "1", "+", "1" >>

\* =-A1:B1
TextRangeLeftUnary == << "=", "-", "A", "1", ":", "B", "1" >>

\* =SUM(A1+1:B2)
TextRangeInCall == << "=", "S", "U", "M", "(", "A", "1", "+", "1", ":", "B", "2", ")" >>

\* =A1:B2
TextPlainRange == << "=", "A", "1", ":", "B", "2" >>

\* =$A$1:B$2
TextAbsoluteRange == << "=", "$", "A", "$", "1", ":", "B", "$", "2" >>

\* Texts whose operators differ in precedence or repeat.
PrecedenceTexts ==
  { TextPrecedence, TextMulPow, TextEqualSum, TextLeftSubtraction, TextLeftDivision,
    TextPowPow, TextUnaryPow, TextParenthesised, TextUnaryParenthesised }

\* Texts the grammar does not produce.
MalformedTexts ==
  { TextUnterminatedString, TextUnmatchedOpen, TextUnmatchedClose, TextUnclosed,
    TextMalformedRef, TextLettersOnly, TextLowerCaseRef, TextTrailing,
    TextRangeLeftNumber, TextRangeRightNumber, TextRangeRightSum, TextRangeLeftUnary,
    TextRangeInCall }

\* Texts with a ':' between two cell references.
RangeTexts == { TextPlainRange, TextAbsoluteRange, TextMixedRange, TextSumRange }

ParseTexts == PrecedenceTexts \cup MalformedTexts \cup RangeTexts

\* The texts of the registry with a reference to row number 0 among them.
AcceptedTexts == Texts \cup { TextRowZero }

\* parse() of each of these texts, evaluated once.
ParsedTexts ==
  [ t \in Texts \cup EngineTexts \cup ParseTexts \cup { TextRowZero, TextB1, TextA1, TextA2 }
      |-> parse(t) ]

\* this.parser.parse(formula)
parserParse(formula) ==
  IF formula \in DOMAIN ParsedTexts THEN ParsedTexts[formula] ELSE parse(formula)

(***************************************************************************)
(* FormulaManager: the pure helpers.                                       *)
(***************************************************************************)
\* The coordinates of a range node, as the loops of extractDependencies
\* (and of the context's getCellRange) enumerate them.
\* A variant that takes only the two corners of the rectangle.
rangeCorners(n) == { << n.startRow, n.startCol >>, << n.endRow, n.endCol >> }

rangeCells(n) ==
  { << row, col >> : row \in n.startRow .. n.endRow, col \in n.startCol .. n.endCol }

RECURSIVE extractDependencies(_)
extractDependencies(n) ==
  CASE n.type = "cell" -> { << n.row, n.col >> }
    [] n.type = "range" -> rangeCells(n)
    [] n.type = "function" ->
         UNION { extractDependencies(n.args[i]) : i \in 1..Len(n.args) }
    [] n.type = "binary" -> extractDependencies(n.left) \cup extractDependencies(n.right)
    [] n.type = "unary" -> extractDependencies(n.operand)
    [] OTHER -> { }

RECURSIVE joinArgs(_, _)
joinArgs(texts, i) ==
  IF i > Len(texts) THEN << >>
  ELSE (IF i > 1 THEN << "," >> ELSE << >>) \o texts[i] \o joinArgs(texts, i + 1)

RECURSIVE formatFormula(_)
formatFormula(node) ==
  CASE node.type = "number" -> numberToString(node.value)
    [] node.type = "string" -> << "\"" >> \o node.value \o << "\"" >>
    [] node.type = "cell" -> formatCellReference(node)
    [] node.type = "range" -> formatCellRange(node)
    [] node.type = "function" ->
         toUpperCase(node.name) \o << "(" >>
           \o joinArgs([ i \in 1..Len(node.args) |-> formatFormula(node.args[i]) ], 1)
           \o << ")" >>
    [] node.type = "binary" ->
         formatFormula(node.left) \o << node.operator >> \o formatFormula(node.right)
    [] node.type = "unary" -> << node.operator >> \o formatFormula(node.operand)
    [] OTHER -> << >>

RECURSIVE shiftNode(_, _, _, _, _, _, _)
RECURSIVE shiftArgs(_, _, _, _, _, _, _, _, _)

\* args.map(arg => shiftNode(arg, ...)): the first argument that throws
\* ends the map.
shiftArgs(args, i, done, rowOffset, colOffset, insertRow, insertCol, deleteRow, deleteCol) ==
  IF i > Len(args) THEN [ ok |-> TRUE, args |-> done ]
  ELSE LET a == shiftNode(args[i], rowOffset, colOffset,
                          insertRow, insertCol, deleteRow, deleteCol)
       IN IF ~a.ok THEN a
          ELSE shiftArgs(args, i + 1, Append(done, a.node), rowOffset, colOffset,
                         insertRow, insertCol, deleteRow, deleteCol)

shiftNode(node, rowOffset, colOffset, insertRow, insertCol, deleteRow, deleteCol) ==
  CASE node.type = "cell" ->
         shiftCellReference(node, rowOffset, colOffset,
                            insertRow, insertCol, deleteRow, deleteCol)
    [] node.type = "range" ->
         shiftCellRange(node, rowOffset, colOffset,
                        insertRow, insertCol, deleteRow, deleteCol)
    [] node.type = "function" ->
         LET a == shiftArgs(node.args, 1, << >>, rowOffset, colOffset,
                            insertRow, insertCol, deleteRow, deleteCol)
         IN IF ~a.ok THEN a
            ELSE [ ok |-> TRUE, node |-> [ node EXCEPT !.args = a.args ] ]
    [] node.type = "binary" ->
         LET l == shiftNode(node.left, rowOffset, colOffset,
                            insertRow, insertCol, deleteRow, deleteCol)
             r == shiftNode(node.right, rowOffset, colOffset,
                            insertRow, insertCol, deleteRow, deleteCol)
         IN IF ~l.ok THEN l
            ELSE IF ~r.ok THEN r
            ELSE [ ok |-> TRUE, node |-> [ node EXCEPT !.left = l.node, !.right = r.node ] ]
    [] node.type = "unary" ->
         LET o == shiftNode(node.operand, rowOffset, colOffset,
                            insertRow, insertCol, deleteRow, deleteCol)
         IN IF ~o.ok THEN o
            ELSE [ ok |-> TRUE, node |-> [ node EXCEPT !.operand = o.node ] ]
    [] OTHER -> [ ok |-> TRUE, node |-> node ]

\* A variant that writes the text anew from the shifted tree.
withRootAndText(ast, r) ==
  IF ~r.ok THEN r
  ELSE [ ok |-> TRUE,
         ast |-> [ root |-> r.node,
                   originalFormula |-> << "=" >> \o formatFormula(r.node) ] ]

\* { ...ast, root: shiftedRoot }
withRoot(ast, r) ==
  IF ~r.ok THEN r ELSE [ ok |-> TRUE, ast |-> [ ast EXCEPT !.root = r.node ] ]

shiftFormulaAST(ast, rowOffset, colOffset, insertRow, insertCol, deleteRow, deleteCol) ==
  withRoot(ast, shiftNode(ast.root, rowOffset, colOffset,
                          insertRow, insertCol, deleteRow, deleteCol))

(***************************************************************************)
(* The registry: a Map<"row:col", FormulaInfo>, held as the sequence of    *)
(* its entries in insertion order, each [key, ast, dependencies,           *)
(* dependents].                                                            *)
(***************************************************************************)
Keys(fs) == { fs[i].key : i \in 1..Len(fs) }

mapHas(fs, key) == key \in Keys(fs)

mapIndex(fs, key) == CHOOSE i \in 1..Len(fs) : fs[i].key = key

mapGet(fs, key) == fs[mapIndex(fs, key)]

\* Map.set: an existing key keeps its place, a new key goes last.
mapSet(fs, entry) ==
  IF mapHas(fs, entry.key)
  THEN [ fs EXCEPT ![mapIndex(fs, entry.key)] = entry ]
  ELSE Append(fs, entry)

\* Map.delete
mapDelete(fs, key) ==
  IF mapHas(fs, key)
  THEN LET i == mapIndex(fs, key) IN SubSeq(fs, 1, i - 1) \o SubSeq(fs, i + 1, Len(fs))
  ELSE fs

addDependencies(fs, cellKey, dependencies) ==
  [ i \in 1..Len(fs) |->
      IF fs[i].key \in dependencies
      THEN [ fs[i] EXCEPT !.dependents = @ \cup { cellKey } ]
      ELSE fs[i] ]

removeDependencies(fs, cellKey) ==
  IF mapHas(fs, cellKey)
  THEN LET dependencies == mapGet(fs, cellKey).dependencies
       IN [ i \in 1..Len(fs) |->
              IF fs[i].key \in dependencies
              THEN [ fs[i] EXCEPT !.dependents = @ \ { cellKey } ]
              ELSE fs[i] ]
  ELSE fs

RECURSIVE rebuildLoop(_, _)
rebuildLoop(fs, i) ==
  IF i > Len(fs) THEN fs
  ELSE rebuildLoop(addDependencies(fs, fs[i].key, fs[i].dependencies), i + 1)

rebuildDependencies(fs) ==
  rebuildLoop([ i \in 1..Len(fs) |-> [ fs[i] EXCEPT !.dependents = { } ] ], 1)

\* setFormula: the registry afterwards, and whether the call threw.
\* The body of setFormula's try block once the text is parsed and its
\* dependencies are extracted: removeDependencies, this.formulas.set with an
\* empty set of dependents, addDependencies.
storeFormula(fs, cellKey, ast, dependencies) ==
  addDependencies(mapSet(removeDependencies(fs, cellKey),
                         [ key |-> cellKey,
                           ast |-> ast,
                           dependencies |-> dependencies,
                           dependents |-> { } ]),
                  cellKey, dependencies)

\* A variant that removes the slot's old dependencies before it parses.
setParsedAfterRemoval(fs, cellKey, parsed) ==
  IF ~parsed.ok
  THEN [ formulas |-> removeDependencies(fs, cellKey), threw |-> TRUE, msg |-> parsed.msg ]
  ELSE [ formulas |-> storeFormula(fs, cellKey, parsed.ast,
                                   extractDependencies(parsed.ast.root)),
         threw |-> FALSE, msg |-> << >> ]

setParsed(fs, cellKey, parsed) ==
  IF ~parsed.ok
  THEN [ formulas |-> fs, threw |-> TRUE, msg |-> parsed.msg ]
  ELSE [ formulas |-> storeFormula(fs, cellKey, parsed.ast,
                                   extractDependencies(parsed.ast.root)),
         threw |-> FALSE, msg |-> << >> ]

setFormula(fs, row, col, formula) == setParsed(fs, << row, col >>, parserParse(formula))

getFormula(fs, row, col) ==
  IF mapHas(fs, << row, col >>)
  THEN mapGet(fs, << row, col >>).ast.originalFormula
  ELSE << >>

removeFormula(fs, row, col) ==
  mapDelete(removeDependencies(fs, << row, col >>), << row, col >>)

(***************************************************************************)
(* JavaScript values held in CellValue.value: [kind, v] with kind one of   *)
(* "num" (a fraction), "bool", "str" (characters), "array" (CellValues),   *)
(* "null", and "other" for the result of a coercion the model does not     *)
(* follow (NaN, Infinity, an array or a string used as a number).          *)
(***************************************************************************)
JsNum(f) == [ kind |-> "num", v |-> f ]

JsBool(b) == [ kind |-> "bool", v |-> b ]

JsStr(chars) == [ kind |-> "str", v |-> chars ]

JsArray(values) == [ kind |-> "array", v |-> values ]

JsNull == [ kind |-> "null", v |-> 0 ]

JsOther == [ kind |-> "other", v |-> 0 ]

isNumeric(a) == a.kind \in { "num", "bool" }

\* ToNumber of a number or a boolean.
numOf(a) == IF a.kind = "bool" THEN (IF a.v THEN Num(1) ELSE Num(0)) ELSE a.v

fracAdd(a, b) == Frac(a.num * b.den + b.num * a.den, a.den * b.den)

fracSub(a, b) == Frac(a.num * b.den - b.num * a.den, a.den * b.den)

fracMul(a, b) == Frac(a.num * b.num, a.den * b.den)

fracDiv(a, b) == Frac(a.num * b.den, a.den * b.num)

fracLess(a, b) == a.num * b.den < b.num * a.den

RECURSIVE fracPowNat(_, _)
fracPowNat(a, k) == IF k = 0 THEN Num(1) ELSE fracMul(a, fracPowNat(a, k - 1))

jsAdd(a, b) ==
  IF isNumeric(a) /\ isNumeric(b) THEN JsNum(fracAdd(numOf(a), numOf(b))) ELSE JsOther

jsSub(a, b) ==
  IF isNumeric(a) /\ isNumeric(b) THEN JsNum(fracSub(numOf(a), numOf(b))) ELSE JsOther

jsMul(a, b) ==
  IF isNumeric(a) /\ isNumeric(b) THEN JsNum(fracMul(numOf(a), numOf(b))) ELSE JsOther

\* a / b for b that is not the number 0.
jsDiv(a, b) ==
  IF isNumeric(a) /\ isNumeric(b) /\ numOf(b).num # 0
  THEN JsNum(fracDiv(numOf(a), numOf(b)))
  ELSE JsOther

jsPow(a, b) ==
  IF isNumeric(a) /\ isNumeric(b) /\ numOf(b).den = 1 /\ numOf(b).num >= 0
  THEN JsNum(fracPowNat(numOf(a), numOf(b).num))
  ELSE JsOther

jsLess(a, b) == isNumeric(a) /\ isNumeric(b) /\ fracLess(numOf(a), numOf(b))

\* A variant that compares with ==, under which false equals 0.
jsLooseEq(a, b) == isNumeric(a) /\ isNumeric(b) /\ numOf(a) = numOf(b)

\* a === b on the values toNumber returns.
jsStrictEq(a, b) == a.kind = b.kind /\ a.kind \in { "num", "bool" } /\ a.v = b.v

(***************************************************************************)
(* FormulaContext: the data source injected into the engine.  A context    *)
(* of the model is a name; getCellValue gives what it answers for a cell,  *)
(* or throws.                                                              *)
(***************************************************************************)
Contexts == { "numbers", "empty", "strings", "errors", "throws" }

\* The contexts of the engine's evaluations: the same, and "mixed", a sheet
\* whose cells differ in type: A1 = 10, B1 = "2", A2 empty, B2 = 15, an
\* error value everywhere else.
EngineContexts == Contexts \cup { "mixed" }

CellValue(type, value) == [ type |-> type, value |-> value ]

EmptyValue == CellValue("empty", JsNull)

\* The cell values of the test suite's mock context (A1..C3), 0 elsewhere.
MockNumber(row, col) ==
  CASE << row, col >> = << 0, 0 >> -> 10
    [] << row, col >> = << 0, 1 >> -> 20
    [] << row, col >> = << 0, 2 >> -> 30
    [] << row, col >> = << 1, 0 >> -> 5
    [] << row, col >> = << 1, 1 >> -> 15
    [] << row, col >> = << 1, 2 >> -> 25
    [] << row, col >> = << 2, 0 >> -> 100
    [] << row, col >> = << 2, 1 >> -> 200
    [] << row, col >> = << 2, 2 >> -> 300
    [] OTHER -> 0

getCellValue(ctx, row, col) ==
  CASE ctx = "numbers" -> [ ok |-> TRUE, val |-> CellValue("number", JsNum(Num(MockNumber(row, col)))) ]
    [] ctx = "empty" -> [ ok |-> TRUE, val |-> EmptyValue ]
    [] ctx = "strings" -> [ ok |-> TRUE, val |-> CellValue("string", JsStr(<< "x" >>)) ]
    [] ctx = "errors" -> [ ok |-> TRUE, val |-> CellValue("error", JsStr(<< "#DIV/0!" >>)) ]
    [] ctx = "mixed" ->
         [ ok |-> TRUE,
           val |-> CASE << row, col >> \in { << 0, 0 >>, << 1, 1 >> } ->
                          CellValue("number", JsNum(Num(MockNumber(row, col))))
                     [] << row, col >> = << 0, 1 >> -> CellValue("string", JsStr(<< "2" >>))
                     [] << row, col >> = << 1, 0 >> -> EmptyValue
                     [] OTHER -> CellValue("error", JsStr(<< "#DIV/0!" >>)) ]
    [] OTHER -> [ ok |-> FALSE, msg |-> << "context failure" >> ]

\* The nested loops of getCellRange, row by row.
RECURSIVE getCellRangeLoop(_, _, _, _, _, _, _)
getCellRangeLoop(ctx, row, col, startCol, endRow, endCol, values) ==
  IF row > endRow THEN [ ok |-> TRUE, val |-> values ]
  ELSE IF col > endCol
       THEN getCellRangeLoop(ctx, row + 1, startCol, startCol, endRow, endCol, values)
       ELSE LET c == getCellValue(ctx, row, col)
            IN IF ~c.ok THEN c
               ELSE getCellRangeLoop(ctx, row, col + 1, startCol, endRow, endCol,
                                     Append(values, c.val))

getCellRange(ctx, startRow, startCol, endRow, endCol) ==
  IF ctx = "throws" THEN [ ok |-> FALSE, msg |-> << "context failure" >> ]
  ELSE getCellRangeLoop(ctx, startRow, startCol, startCol, endRow, endCol, << >>)

(***************************************************************************)
(* FormulaEngine.  evaluateNode returns [ok, val], or [ok = FALSE, msg]    *)
(* when it throws.                                                         *)
(***************************************************************************)
isArray(value) == value.kind = "array"

\* The values the loops of SUM, MIN, MAX and AVERAGE take into account, in
\* order: a scalar argument of type number, and the cells of type number of
\* an array argument.
\* A variant that takes the value of every cell, whatever its type.
everyCell(cells, i) == [ k \in 1..Len(cells) |-> cells[k].value ]

RECURSIVE numberCells(_, _)
numberCells(cells, i) ==
  IF i > Len(cells) THEN << >>
  ELSE (IF cells[i].type = "number" THEN << cells[i].value >> ELSE << >>)
         \o numberCells(cells, i + 1)

RECURSIVE numberValues(_, _)
numberValues(args, i) ==
  IF i > Len(args) THEN << >>
  ELSE (IF args[i].type = "number" /\ ~isArray(args[i].value) THEN << args[i].value >>
        ELSE IF isArray(args[i].value) THEN numberCells(args[i].value.v, 1)
        ELSE << >>)
         \o numberValues(args, i + 1)

RECURSIVE jsSum(_, _)
jsSum(values, i) ==
  IF i = 0 THEN JsNum(Num(0)) ELSE jsAdd(jsSum(values, i - 1), values[i])

RECURSIVE jsMin(_, _)
jsMin(values, i) ==
  IF i = 1 THEN values[1]
  ELSE LET m == jsMin(values, i - 1) IN IF jsLess(values[i], m) THEN values[i] ELSE m

RECURSIVE jsMax(_, _)
jsMax(values, i) ==
  IF i = 1 THEN values[1]
  ELSE LET m == jsMax(values, i - 1) IN IF jsLess(m, values[i]) THEN values[i] ELSE m

evaluateSum(args) ==
  LET values == numberValues(args, 1)
  IN CellValue("number", IF Len(values) > 0 THEN jsSum(values, Len(values)) ELSE JsNum(Num(0)))

evaluateMin(args) ==
  LET values == numberValues(args, 1)
  IN CellValue("number", IF Len(values) = 0 THEN JsNum(Num(0)) ELSE jsMin(values, Len(values)))

evaluateMax(args) ==
  LET values == numberValues(args, 1)
  IN CellValue("number", IF Len(values) = 0 THEN JsNum(Num(0)) ELSE jsMax(values, Len(values)))

evaluateAverage(args) ==
  LET values == numberValues(args, 1)
  IN CellValue("number",
               IF Len(values) = 0 THEN JsNum(Num(0))
               ELSE jsDiv(jsSum(values, Len(values)), JsNum(Num(Len(values)))))

RECURSIVE countCells(_, _)
countCells(cells, i) ==
  IF i > Len(cells) THEN 0
  ELSE (IF cells[i].type \in { "number", "string" } THEN 1 ELSE 0) + countCells(cells, i + 1)

RECURSIVE countLoop(_, _)
countLoop(args, i) ==
  IF i > Len(args) THEN 0
  ELSE (IF args[i].type = "number" \/ args[i].type = "string" THEN 1
        ELSE IF isArray(args[i].value) THEN countCells(args[i].value.v, 1)
        ELSE 0)
         + countLoop(args, i + 1)

evaluateCount(args) == CellValue("number", JsNum(Num(countLoop(args, 1))))

\* parseFloat of a cell's string: the numeric prefix of a string that
\* starts with a digit; NaN otherwise (strings with a leading sign, dot or
\* blank are outside the model's contexts).
toNumber(value) ==
  CASE value.type = "number" -> value.value
    [] value.type = "string" ->
         IF Len(value.value.v) >= 1 /\ isDigit(value.value.v[1])
         THEN JsNum(parseFloat(value.value.v))
         ELSE JsNum(Num(0))
    [] OTHER -> JsNum(Num(0))

KnownFunctions ==
  { << "S", "U", "M" >>, << "M", "I", "N" >>, << "M", "A", "X" >>,
    << "A", "V", "E", "R", "A", "G", "E" >>, << "C", "O", "U", "N", "T" >> }

RECURSIVE evaluateNode(_, _)
RECURSIVE evaluateArgs(_, _, _, _)

\* func.args.map(arg => this.evaluateNode(arg))
evaluateArgs(ctx, args, i, done) ==
  IF i > Len(args) THEN [ ok |-> TRUE, val |-> done ]
  ELSE LET a == evaluateNode(ctx, args[i])
       IN IF ~a.ok THEN a ELSE evaluateArgs(ctx, args, i + 1, Append(done, a.val))

evaluateCellReference(ctx, cell) == getCellValue(ctx, cell.row, cell.col)

evaluateCellRange(ctx, range) ==
  LET values == getCellRange(ctx, range.startRow, range.startCol, range.endRow, range.endCol)
  IN IF ~values.ok THEN values
     ELSE [ ok |-> TRUE, val |-> CellValue("number", JsArray(values.val)) ]

\* A variant that sums the arguments of a function it does not know.
evaluateFunctionLenient(ctx, func) ==
  LET args == evaluateArgs(ctx, func.args, 1, << >>)
  IN IF ~args.ok THEN args ELSE [ ok |-> TRUE, val |-> evaluateSum(args.val) ]

evaluateFunction(ctx, func) ==
  LET args == evaluateArgs(ctx, func.args, 1, << >>)
  IN IF ~args.ok THEN args
     ELSE CASE func.name = << "S", "U", "M" >> -> [ ok |-> TRUE, val |-> evaluateSum(args.val) ]
            [] func.name = << "M", "I", "N" >> -> [ ok |-> TRUE, val |-> evaluateMin(args.val) ]
            [] func.name = << "M", "A", "X" >> -> [ ok |-> TRUE, val |-> evaluateMax(args.val) ]
            [] func.name = << "A", "V", "E", "R", "A", "G", "E" >> ->
                 [ ok |-> TRUE, val |-> evaluateAverage(args.val) ]
            [] func.name = << "C", "O", "U", "N", "T" >> ->
                 [ ok |-> TRUE, val |-> evaluateCount(args.val) ]
            [] OTHER -> [ ok |-> FALSE, msg |-> << "Error: unknown function: " >> \o func.name ]

evaluateBinaryOperation(ctx, op) ==
  LET left == evaluateNode(ctx, op.left)
      right == evaluateNode(ctx, op.right)
  IN IF ~left.ok THEN left
     ELSE IF ~right.ok THEN right
     ELSE LET leftNum == toNumber(left.val)
              rightNum == toNumber(right.val)
              number(v) == [ ok |-> TRUE, val |-> CellValue("number", v) ]
          IN CASE op.operator = "+" -> number(jsAdd(leftNum, rightNum))
               [] op.operator = "-" -> number(jsSub(leftNum, rightNum))
               [] op.operator = "*" -> number(jsMul(leftNum, rightNum))
               [] op.operator = "/" ->
                    IF jsStrictEq(rightNum, JsNum(Num(0)))
                    THEN [ ok |-> TRUE, val |-> CellValue("error", JsStr(<< "#DIV/0!" >>)) ]
                    ELSE number(jsDiv(leftNum, rightNum))
               [] op.operator = "^" -> number(jsPow(leftNum, rightNum))
               [] op.operator = "=" -> number(JsBool(jsStrictEq(leftNum, rightNum)))
               [] op.operator = "<" -> number(JsBool(jsLess(leftNum, rightNum)))
               [] op.operator = ">" -> number(JsBool(jsLess(rightNum, leftNum)))
               [] op.operator = "<=" ->
                    number(JsBool(jsLess(leftNum, rightNum) \/ jsStrictEq(leftNum, rightNum)))
               [] op.operator = ">=" ->
                    number(JsBool(jsLess(rightNum, leftNum) \/ jsStrictEq(leftNum, rightNum)))
               [] op.operator = "<>" -> number(JsBool(~jsStrictEq(leftNum, rightNum)))
               [] OTHER -> [ ok |-> FALSE, msg |-> << "Error: unknown operator: ", op.operator >> ]

evaluateUnaryOperation(ctx, op) ==
  LET operand == evaluateNode(ctx, op.operand)
  IN IF ~operand.ok THEN operand
     ELSE LET num == toNumber(operand.val)
          IN CASE op.operator = "+" ->
                    [ ok |-> TRUE, val |-> CellValue("number", jsAdd(JsNum(Num(0)), num)) ]
               [] op.operator = "-" ->
                    [ ok |-> TRUE, val |-> CellValue("number", jsSub(JsNum(Num(0)), num)) ]
               [] OTHER ->
                    [ ok |-> FALSE, msg |-> << "Error: unknown unary operator: ", op.operator >> ]

evaluateNode(ctx, node) ==
  CASE node.type = "number" -> [ ok |-> TRUE, val |-> CellValue("number", JsNum(node.value)) ]
    [] node.type = "string" -> [ ok |-> TRUE, val |-> CellValue("string", JsStr(node.value)) ]
    [] node.type = "cell" -> evaluateCellReference(ctx, node)
    [] node.type = "range" -> evaluateCellRange(ctx, node)
    [] node.type = "function" -> evaluateFunction(ctx, node)
    [] node.type = "binary" -> evaluateBinaryOperation(ctx, node)
    [] node.type = "unary" -> evaluateUnaryOperation(ctx, node)
    [] OTHER -> [ ok |-> FALSE, msg |-> << "Error: unknown node type" >> ]

\* `#ERROR: ${error}`
errorValue(msg) == CellValue("error", JsStr(<< "#ERROR: " >> \o msg))

\* FormulaEngine.evaluate: a throw of evaluateNode becomes an error value.
evaluate(ctx, ast) ==
  LET result == evaluateNode(ctx, ast.root)
  IN IF result.ok THEN [ ok |-> TRUE, val |-> result.val ]
     ELSE [ ok |-> TRUE, val |-> errorValue(result.msg) ]

\* A variant with neither try/catch: evaluateNode's throw reaches the caller.
evaluateFormulaUncaught(fs, ctx, row, col) ==
  IF ~mapHas(fs, << row, col >>) THEN [ ok |-> TRUE, val |-> EmptyValue ]
  ELSE evaluateNode(ctx, mapGet(fs, << row, col >>).ast.root)

\* FormulaManager.evaluateFormula: [ok, val]; ok = FALSE would be a throw
\* that reaches the caller.
evaluateFormula(fs, ctx, row, col) ==
  IF ~mapHas(fs, << row, col >>) THEN [ ok |-> TRUE, val |-> EmptyValue ]
  ELSE LET result == evaluate(ctx, mapGet(fs, << row, col >>).ast)
       IN IF result.ok THEN result
          ELSE [ ok |-> TRUE, val |-> errorValue(result.msg) ]

(***************************************************************************)
(* FormulaManager: the structural edits.  The four handlers run the same   *)
(* sweep over the registry; op names the handler and at its index.         *)
(***************************************************************************)
EditOps == { "handleRowInsertion", "handleRowDeletion",
             "handleColumnInsertion", "handleColumnDeletion" }

DeletionOps == { "handleRowDeletion", "handleColumnDeletion" }

\* A variant that drops no formula.
isDroppedNever(op, at, key) == FALSE

\* `if (row === atRow) continue` / `if (col === atCol) continue`
isDropped(op, at, key) ==
  \/ op = "handleRowDeletion" /\ key[1] = at
  \/ op = "handleColumnDeletion" /\ key[2] = at

\* A variant whose insertions move the formulas beyond the index only.
newKeyInsertingAfter(op, at, key) ==
  CASE op = "handleRowInsertion" -> << IF key[1] > at THEN key[1] + 1 ELSE key[1], key[2] >>
    [] op = "handleRowDeletion" -> << IF key[1] > at THEN key[1] - 1 ELSE key[1], key[2] >>
    [] op = "handleColumnInsertion" -> << key[1], IF key[2] > at THEN key[2] + 1 ELSE key[2] >>
    [] op = "handleColumnDeletion" -> << key[1], IF key[2] > at THEN key[2] - 1 ELSE key[2] >>

\* newRow, newCol of the formula's own coordinate.
newKey(op, at, key) ==
  CASE op = "handleRowInsertion" -> << IF key[1] >= at THEN key[1] + 1 ELSE key[1], key[2] >>
    [] op = "handleRowDeletion" -> << IF key[1] > at THEN key[1] - 1 ELSE key[1], key[2] >>
    [] op = "handleColumnInsertion" -> << key[1], IF key[2] >= at THEN key[2] + 1 ELSE key[2] >>
    [] op = "handleColumnDeletion" -> << key[1], IF key[2] > at THEN key[2] - 1 ELSE key[2] >>

\* The call of shiftFormulaAST each handler makes.
shiftFor(op, at, ast) ==
  shiftFormulaAST(ast, 0, 0,
                  IF op = "handleRowInsertion" THEN Some(at) ELSE None,
                  IF op = "handleColumnInsertion" THEN Some(at) ELSE None,
                  IF op = "handleRowDeletion" THEN Some(at) ELSE None,
                  IF op = "handleColumnDeletion" THEN Some(at) ELSE None)

\* The `for (const [cellKey, formulaInfo] of this.formulas)` loop from
\* entry i on: newFormulas and the callback invocations made so far.  A
\* throw of shiftFormulaAST leaves the loop at once.
RECURSIVE sweep(_, _, _, _, _, _, _)

\* A variant that calls back with the coordinate the formula had.
sweepStepOldKey(fs, i, newFormulas, calls, op, at, callback, newCellKey, shifted) ==
  IF ~shifted.ok
  THEN [ threw |-> TRUE, msg |-> shifted.msg,
         newFormulas |-> newFormulas, calls |-> calls ]
  ELSE sweep(fs, i + 1,
             mapSet(newFormulas,
                    [ key |-> newCellKey,
                      ast |-> shifted.ast,
                      dependencies |-> extractDependencies(shifted.ast.root),
                      dependents |-> { } ]),
             IF callback
             THEN Append(calls, [ row |-> fs[i].key[1], col |-> fs[i].key[2],
                                  formula |-> << "=" >> \o formatFormula(shifted.ast.root) ])
             ELSE calls,
             op, at, callback)

\* One round of the loop for a formula that is kept: newFormulas.set and
\* the callback, or the throw of shiftFormulaAST.
sweepStep(fs, i, newFormulas, calls, op, at, callback, newCellKey, shifted) ==
  IF ~shifted.ok
  THEN [ threw |-> TRUE, msg |-> shifted.msg,
         newFormulas |-> newFormulas, calls |-> calls ]
  ELSE sweep(fs, i + 1,
             mapSet(newFormulas,
                    [ key |-> newCellKey,
                      ast |-> shifted.ast,
                      dependencies |-> extractDependencies(shifted.ast.root),
                      dependents |-> { } ]),
             IF callback
             THEN Append(calls, [ row |-> newCellKey[1], col |-> newCellKey[2],
                                  formula |-> << "=" >> \o formatFormula(shifted.ast.root) ])
             ELSE calls,
             op, at, callback)

sweep(fs, i, newFormulas, calls, op, at, callback) ==
  IF i > Len(fs)
  THEN [ threw |-> FALSE, msg |-> << >>, newFormulas |-> newFormulas, calls |-> calls ]
  ELSE IF isDropped(op, at, fs[i].key)
       THEN sweep(fs, i + 1, newFormulas, calls, op, at, callback)
       ELSE sweepStep(fs, i, newFormulas, calls, op, at, callback,
                      newKey(op, at, fs[i].key), shiftFor(op, at, fs[i].ast))

\* A handler as a whole: the registry afterwards, the callback invocations
\* it made, and whether it threw.  The registry is replaced only after the
\* loop has ended; the closing recalculateAllFormulas evaluates every
\* formula, catches every failure and changes nothing.
\* A variant that installs newFormulas as far as the loop got.
afterSweepPartial(fs, s) ==
  IF s.threw
  THEN [ formulas |-> s.newFormulas, threw |-> TRUE, msg |-> s.msg, calls |-> s.calls ]
  ELSE [ formulas |-> rebuildDependencies(s.newFormulas),
         threw |-> FALSE, msg |-> << >>, calls |-> s.calls ]

\* The end of a handler: `this.formulas = newFormulas` and
\* rebuildDependencies, which a throw of the loop never reaches.
afterSweep(fs, s) ==
  IF s.threw
  THEN [ formulas |-> fs, threw |-> TRUE, msg |-> s.msg, calls |-> s.calls ]
  ELSE [ formulas |-> rebuildDependencies(s.newFormulas),
         threw |-> FALSE, msg |-> << >>, calls |-> s.calls ]

structuralEdit(fs, op, at, callback) ==
  afterSweep(fs, sweep(fs, 1, << >>, << >>, op, at, callback))

handleRowInsertion(fs, atRow, callback) ==
  structuralEdit(fs, "handleRowInsertion", atRow, callback)

handleRowDeletion(fs, atRow, callback) ==
  structuralEdit(fs, "handleRowDeletion", atRow, callback)

handleColumnInsertion(fs, atCol, callback) ==
  structuralEdit(fs, "handleColumnInsertion", atCol, callback)

handleColumnDeletion(fs, atCol, callback) ==
  structuralEdit(fs, "handleColumnDeletion", atCol, callback)

(***************************************************************************)
(* SparseMatrix.  The store is [blocks, blockSize, totalCells]; a Map is a *)
(* function from its keys, a key being the characters of the string.       *)
(* Values are JavaScript values: those above, undefined, Infinity, and     *)
(* objects (a function from property names).                               *)
(***************************************************************************)
JsUndefined == [ kind |-> "undefined", v |-> 0 ]

JsInfinity == [ kind |-> "infinity", v |-> 0 ]

JsObject(fields) == [ kind |-> "object", v |-> fields ]

\* !a
falsy(a) ==
  \/ a.kind \in { "null", "undefined" }
  \/ a.kind = "num" /\ a.v.num = 0
  \/ a.kind = "bool" /\ ~a.v
  \/ a.kind = "str" /\ a.v = << >>

\* a || b
jsOr(a, b) == IF falsy(a) THEN b ELSE a

EmptyMap == << >>

\* Map.set and Map.delete
put(map, key, value) ==
  [ k \in DOMAIN map \cup { key } |-> IF k = key THEN value ELSE map[k] ]

without(map, key) == [ k \in DOMAIN map \ { key } |-> map[k] ]

DefaultBlockSize == 1000

\* new SparseMatrix(blockSize)
NewSparseMatrix(blockSize) ==
  [ blocks |-> EmptyMap, blockSize |-> blockSize, totalCells |-> 0 ]

getBlockKey(m, row, col) ==
  intToString(row \div m.blockSize) \o << "_" >> \o intToString(col \div m.blockSize)

getCellKey(m, row, col) ==
  intToString(row % m.blockSize) \o << "_" >> \o intToString(col % m.blockSize)

hasCell(m, row, col) ==
  /\ getBlockKey(m, row, col) \in DOMAIN m.blocks
  /\ getCellKey(m, row, col) \in DOMAIN m.blocks[getBlockKey(m, row, col)]

\* A variant that leaves the emptied block in the map.
removeCellKeepingBlock(m, row, col) ==
  IF hasCell(m, row, col)
  THEN [ m EXCEPT !.blocks[getBlockKey(m, row, col)] = without(@, getCellKey(m, row, col)),
                  !.totalCells = @ - 1 ]
  ELSE m

removeCell(m, row, col) ==
  IF hasCell(m, row, col)
  THEN LET blockKey == getBlockKey(m, row, col)
           block == without(m.blocks[blockKey], getCellKey(m, row, col))
       IN [ m EXCEPT !.blocks = IF DOMAIN block = { }
                                THEN without(m.blocks, blockKey)
                                ELSE put(m.blocks, blockKey, block),
                     !.totalCells = @ - 1 ]
  ELSE m

\* value === null || value === undefined || value === ''
removes(value) ==
  \/ value.kind \in { "null", "undefined" }
  \/ value.kind = "str" /\ value.v = << >>

setCell(m, row, col, value) ==
  IF removes(value) THEN removeCell(m, row, col)
  ELSE LET blockKey == getBlockKey(m, row, col)
           cellKey == getCellKey(m, row, col)
           block == IF blockKey \in DOMAIN m.blocks THEN m.blocks[blockKey] ELSE EmptyMap
       IN [ m EXCEPT !.blocks = put(m.blocks, blockKey, put(block, cellKey, value)),
                     !.totalCells = IF cellKey \in DOMAIN block THEN @ ELSE @ + 1 ]

getCell(m, row, col) ==
  IF getBlockKey(m, row, col) \notin DOMAIN m.blocks THEN JsNull
  ELSE jsOr(IF hasCell(m, row, col)
            THEN m.blocks[getBlockKey(m, row, col)][getCellKey(m, row, col)]
            ELSE JsUndefined,
            JsNull)

clear(m) == [ m EXCEPT !.blocks = EmptyMap, !.totalCells = 0 ]

\* cellKey.split('_')[n - 1], and << >> where the part is undefined.
RECURSIVE splitPart(_, _, _)
splitPart(s, i, n) ==
  IF i > Len(s) THEN << >>
  ELSE IF s[i] = "_" THEN (IF n = 1 THEN << >> ELSE splitPart(s, i + 1, n - 1))
  ELSE IF n = 1 THEN << s[i] >> \o splitPart(s, i + 1, n)
  ELSE splitPart(s, i + 1, n)

\* Number(part) || 0, for a part made of digits; 0 for any other part.
numberOrZero(part) ==
  IF part # << >> /\ \A i \in 1..Len(part) : isDigit(part[i]) THEN parseInt(part) ELSE 0

parseCellKey(cellKey) ==
  [ row |-> numberOrZero(splitPart(cellKey, 1, 1)),
    col |-> numberOrZero(splitPart(cellKey, 1, 2)) ]

\* getAllCells: one { row, col, value } for each entry of each block, row
\* and col being what parseCellKey reads from the cell key.  `entries` is
\* the set of << blockKey, cellKey >> still to visit; the order of the list
\* is not the Map's.
RECURSIVE getAllCellsLoop(_, _)
getAllCellsLoop(m, entries) ==
  IF entries = { } THEN << >>
  ELSE LET e == CHOOSE x \in entries : TRUE
       IN << [ row |-> parseCellKey(e[2]).row,
               col |-> parseCellKey(e[2]).col,
               value |-> m.blocks[e[1]][e[2]] ] >>
            \o getAllCellsLoop(m, entries \ { e })

getAllCells(m) ==
  getAllCellsLoop(m, UNION { { << blockKey, cellKey >> : cellKey \in DOMAIN m.blocks[blockKey] } :
                             blockKey \in DOMAIN m.blocks })

optimize(m) ==
  [ m EXCEPT !.blocks = [ k \in { b \in DOMAIN m.blocks : DOMAIN m.blocks[b] # { } } |->
                            m.blocks[k] ] ]

\* getStats(), without the memory estimate and the fill ratio.
getStats(m) ==
  [ totalCells |-> m.totalCells,
    totalBlocks |-> Cardinality(DOMAIN m.blocks),
    blockSize |-> m.blockSize ]

(***************************************************************************)
(* JSON.  A text is [valid, data]: whether JSON.parse accepts it and the   *)
(* value it then returns.  JSON.stringify writes a number that is not      *)
(* finite as null, so jsonValue is what a value is read back as.           *)
(***************************************************************************)
jsonValue(value) == IF value.kind \in { "infinity", "other" } THEN JsNull ELSE value

JsonText(data) == [ valid |-> TRUE, data |-> data ]

NotJson == [ valid |-> FALSE, data |-> JsUndefined ]

\* data[name], for data that is neither null nor undefined.
getProperty(data, name) ==
  IF data.kind = "object" /\ name \in DOMAIN data.v THEN data.v[name] ELSE JsUndefined

\* Object.entries(value) as a map: the properties of an object, the indexed
\* elements of an array, the indexed characters of a string, nothing for a
\* number or a boolean; it throws for null and undefined.
objectEntries(value) ==
  CASE value.kind = "object" -> [ ok |-> TRUE, map |-> value.v ]
    [] value.kind \in { "array", "str" } ->
         [ ok |-> TRUE,
           map |-> [ k \in { intToString(i - 1) : i \in 1..Len(value.v) } |->
                       LET i == CHOOSE j \in 1..Len(value.v) : intToString(j - 1) = k
                       IN IF value.kind = "str" THEN JsStr(<< value.v[i] >>) ELSE value.v[i] ] ]
    [] value.kind \in { "null", "undefined" } -> [ ok |-> FALSE, map |-> EmptyMap ]
    [] OTHER -> [ ok |-> TRUE, map |-> EmptyMap ]

\* blockData && typeof blockData === 'object'
isObjectData(value) == value.kind \in { "object", "array" }

exportToJSON(m) ==
  JsonText(JsObject(
    [ blockSize |-> JsNum(Num(m.blockSize)),
      totalCells |-> JsNum(Num(m.totalCells)),
      blocks |-> JsObject([ blockKey \in DOMAIN m.blocks |->
                   JsObject([ cellKey \in DOMAIN m.blocks[blockKey] |->
                                jsonValue(m.blocks[blockKey][cellKey]) ]) ]) ]))

\* The body of importFromJSON's try block once `blocks` has been read:
\* entries is Object.entries(data.blocks).
importBlocks(m, entries) ==
  IF ~entries.ok THEN [ matrix |-> m, threw |-> TRUE ]
  ELSE [ matrix |->
           [ m EXCEPT !.blocks =
               [ k \in { b \in DOMAIN entries.map : isObjectData(entries.map[b]) } |->
                   objectEntries(entries.map[k]).map ] ],
         threw |-> FALSE ]

\* A variant that keeps the block size of the importing store.
importFromJSONKeepingBlockSize(m, json) ==
  IF ~json.valid \/ json.data.kind \in { "null", "undefined" }
  THEN [ matrix |-> m, threw |-> TRUE ]
  ELSE importBlocks([ blocks |-> EmptyMap,
                      blockSize |-> m.blockSize,
                      totalCells |-> jsOr(getProperty(json.data, "totalCells"),
                                          JsNum(Num(0))).v.num ],
                    objectEntries(getProperty(json.data, "blocks")))

\* importFromJSON: the store afterwards and whether the call threw the
\* format error.  The numbers of the model's payloads are integers.
importFromJSON(m, json) ==
  IF ~json.valid \/ json.data.kind \in { "null", "undefined" }
  THEN [ matrix |-> m, threw |-> TRUE ]
  ELSE importBlocks([ blocks |-> EmptyMap,
                      blockSize |-> jsOr(getProperty(json.data, "blockSize"),
                                         JsNum(Num(DefaultBlockSize))).v.num,
                      totalCells |-> jsOr(getProperty(json.data, "totalCells"),
                                          JsNum(Num(0))).v.num ],
                    objectEntries(getProperty(json.data, "blocks")))

(***************************************************************************)
(* The inputs of the store: the values passed to setCell and the texts     *)
(* passed to importFromJSON.                                               *)
(***************************************************************************)
\* null, undefined, '', 0, false, 'a', 7, Infinity
CellInputs ==
  << JsNull, JsUndefined, JsStr(<< >>), JsNum(Num(0)), JsBool(FALSE),
     JsStr(<< "a" >>), JsNum(Num(7)), JsInfinity >>

FirstKey == << "0", "_", "0" >>

Payloads ==
  { "notJson", "null", "noBlocks", "blocksString", "blocksArray", "scalarEntry",
    "emptyBlock", "wellFormed", "wrongCount" }

\* {"blockSize": 2, "totalCells": totalCells, "blocks": blocks}
PayloadWith(totalCells, blocks) ==
  JsonText(JsObject([ blockSize |-> JsNum(Num(2)),
                      totalCells |-> JsNum(Num(totalCells)),
                      blocks |-> blocks ]))

PayloadText(name) ==
  CASE name = "notJson" -> NotJson
    [] name = "null" -> JsonText(JsNull)
    [] name = "noBlocks" ->
         JsonText(JsObject([ blockSize |-> JsNum(Num(2)), totalCells |-> JsNum(Num(3)) ]))
    [] name = "blocksString" -> PayloadWith(0, JsStr(<< "a", "b" >>))
    [] name = "blocksArray" ->
         PayloadWith(1, JsArray(<< JsObject(FirstKey :> JsStr(<< "a" >>)) >>))
    [] name = "scalarEntry" -> PayloadWith(1, JsObject(FirstKey :> JsNum(Num(5))))
    [] name = "emptyBlock" -> PayloadWith(0, JsObject(FirstKey :> JsObject(EmptyMap)))
    [] name = "wellFormed" ->
         PayloadWith(1, JsObject(FirstKey :> JsObject(FirstKey :> JsStr(<< "a" >>))))
    [] OTHER -> PayloadWith(5, JsObject(EmptyMap))

BlockSizes == 1 .. MaxBlockSize

(***************************************************************************)
(* Bounded inputs and the guard that keeps coordinates within MaxCoord.     *)
(***************************************************************************)
Coords == 0 .. MaxCoord

\* The cell references of a tree: its cell nodes and the two endpoints of
\* each of its range nodes.
RECURSIVE References(_)
References(n) ==
  CASE n.type = "cell" -> { n }
    [] n.type = "range" -> { rangeStart(n), rangeEnd(n) }
    [] n.type = "function" -> UNION { References(n.args[i]) : i \in 1..Len(n.args) }
    [] n.type = "binary" -> References(n.left) \cup References(n.right)
    [] n.type = "unary" -> References(n.operand)
    [] OTHER -> { }

\* Every key and every reference of the registry is within MaxCoord.
InBounds(fs) ==
  \A i \in 1..Len(fs) :
    /\ fs[i].key[1] <= MaxCoord /\ fs[i].key[2] <= MaxCoord
    /\ \A ref \in References(fs[i].ast.root) : ref.row <= MaxCoord /\ ref.col <= MaxCoord

(***************************************************************************)
(* VirtualGrid.                                                            *)
(***************************************************************************)
\* Math.min and Math.max of two integers.
mathMin(a, b) == IF a < b THEN a ELSE b

mathMax(a, b) == IF a > b THEN a ELSE b

\* Math.ceil(a / b) for a >= 0 and b > 0.
mathCeilDiv(a, b) == (a + b - 1) \div b

\* An array of cells: `id` tells one array object from another, `items`
\* are its elements.
CellArray(id, items) == [ id |-> id, items |-> items ]

NoArray == CellArray(0, << >>)

\* `arrays` counts the arrays getVisibleCells has built.
NewVirtualGrid(canvasWidth, canvasHeight, cellWidth, cellHeight, maxRows, maxCols) ==
  [ canvasWidth |-> canvasWidth, canvasHeight |-> canvasHeight,
    cellWidth |-> cellWidth, cellHeight |-> cellHeight,
    maxRows |-> maxRows, maxCols |-> maxCols,
    viewport |-> [ startRow |-> 0, endRow |-> mathCeilDiv(canvasHeight, cellHeight),
                   startCol |-> 0, endCol |-> mathCeilDiv(canvasWidth, cellWidth) ],
    scrollX |-> 0, scrollY |-> 0,
    cachedCells |-> None, cachedViewport |-> None,
    arrays |-> 0 ]

viewportsEqual(v1, v2) ==
  /\ v1.startRow = v2.startRow
  /\ v1.startCol = v2.startCol
  /\ v1.endRow = v2.endRow
  /\ v1.endCol = v2.endCol

\* The two loops of getVisibleCells: rows from startRow below endRow, and
\* within a row the columns from startCol below endCol.
buildCells(g) ==
  LET rows == mathMax(0, g.viewport.endRow - g.viewport.startRow)
      cols == mathMax(0, g.viewport.endCol - g.viewport.startCol)
  IN [ k \in 1 .. rows * cols |->
         LET row == g.viewport.startRow + ((k - 1) \div cols)
             col == g.viewport.startCol + ((k - 1) % cols)
         IN [ row |-> row, col |-> col,
              screenX |-> (col - g.viewport.startCol) * g.cellWidth - g.scrollX,
              screenY |-> (row - g.viewport.startRow) * g.cellHeight - g.scrollY,
              width |-> g.cellWidth, height |-> g.cellHeight ] ]

\* getVisibleCells without its cache: a new array at every call.
getVisibleCellsUncached(g) ==
  [ grid |-> [ g EXCEPT !.cachedCells = Some(CellArray(g.arrays + 1, buildCells(g))),
                        !.cachedViewport = Some(g.viewport),
                        !.arrays = g.arrays + 1 ],
    cells |-> CellArray(g.arrays + 1, buildCells(g)) ]

getVisibleCells(g) ==
  IF /\ g.cachedCells.def
     /\ g.cachedViewport.def
     /\ viewportsEqual(g.cachedViewport.v, g.viewport)
  THEN [ grid |-> g, cells |-> g.cachedCells.v ]
  ELSE [ grid |-> [ g EXCEPT !.cachedCells = Some(CellArray(g.arrays + 1, buildCells(g))),
                             !.cachedViewport = Some(g.viewport),
                             !.arrays = g.arrays + 1 ],
         cells |-> CellArray(g.arrays + 1, buildCells(g)) ]

invalidateCache(g) == [ g EXCEPT !.cachedCells = None, !.cachedViewport = None ]

setViewportWith(g, startRow, startCol) ==
  LET clampedRow == mathMax(0, mathMin(startRow, g.maxRows - 1))
      clampedCol == mathMax(0, mathMin(startCol, g.maxCols - 1))
  IN [ startRow |-> clampedRow, startCol |-> clampedCol ]

setViewport(g, startRow, startCol, endRow, endCol) ==
  LET first == setViewportWith(g, startRow, startCol)
  IN invalidateCache(
       [ g EXCEPT !.viewport =
           [ startRow |-> first.startRow,
             startCol |-> first.startCol,
             endRow |-> mathMax(first.startRow + 1, mathMin(endRow, g.maxRows)),
             endCol |-> mathMax(first.startCol + 1, mathMin(endCol, g.maxCols)) ] ])

getVisibleRows(g) == mathCeilDiv(g.canvasHeight, g.cellHeight)

getVisibleCols(g) == mathCeilDiv(g.canvasWidth, g.cellWidth)

updateViewportBounds(g) ==
  invalidateCache(
    [ g EXCEPT !.viewport.endRow = mathMin(g.maxRows, g.viewport.startRow + getVisibleRows(g)),
               !.viewport.endCol = mathMin(g.maxCols, g.viewport.startCol + getVisibleCols(g)) ])

scrollTo(g, row, col) ==
  LET r == mathMax(0, mathMin(row, g.maxRows - 1))
      c == mathMax(0, mathMin(col, g.maxCols - 1))
  IN updateViewportBounds(
       [ g EXCEPT !.viewport.startRow = mathMax(0, r - (getVisibleRows(g) \div 2)),
                  !.viewport.startCol = mathMax(0, c - (getVisibleCols(g) \div 2)) ])

scrollUp(g) ==
  IF g.viewport.startRow > 0
  THEN updateViewportBounds([ g EXCEPT !.viewport.startRow = mathMax(0, g.viewport.startRow - 1) ])
  ELSE g

scrollDown(g) ==
  IF g.viewport.endRow < g.maxRows
  THEN updateViewportBounds(
         [ g EXCEPT !.viewport.startRow =
             mathMin(g.maxRows - getVisibleRows(g), g.viewport.startRow + 1) ])
  ELSE g

scrollLeft(g) ==
  IF g.viewport.startCol > 0
  THEN updateViewportBounds([ g EXCEPT !.viewport.startCol = mathMax(0, g.viewport.startCol - 1) ])
  ELSE g

scrollRight(g) ==
  IF g.viewport.endCol < g.maxCols
  THEN updateViewportBounds(
         [ g EXCEPT !.viewport.startCol =
             mathMin(g.maxCols - getVisibleCols(g), g.viewport.startCol + 1) ])
  ELSE g

updateCanvasSize(g, width, height) ==
  updateViewportBounds([ g EXCEPT !.canvasWidth = width, !.canvasHeight = height ])

setCellSize(g, width, height) ==
  updateViewportBounds([ g EXCEPT !.cellWidth = width, !.cellHeight = height ])

\* The arguments the grid operations are given.
GridCoords == 0 .. MaxGridSize

Sizes == 1 .. MaxCanvasSize

(***************************************************************************)
(* Evaluation under a context that resolves a formula cell by calling      *)
(* evaluateFormula on it, as App.getCellValue does.  The nested calls are  *)
(* kept as a stack of frames, one per evaluateFormula call, each frame the *)
(* coordinate it evaluates; `returned` is the value a finished call hands  *)
(* to its caller.  The formulas are single cell references.                *)
(***************************************************************************)
NoCalls == [ frames |-> << >>, returned |-> None ]

\* `${error}` of the RangeError the engine throws when its call stack is full.
RangeErrorMsg == << "RangeError: Maximum call stack size exceeded" >>

pop(frames) == SubSeq(frames, 1, Len(frames) - 1)

\* The call on top of the stack returns `value`.
returnValue(st, value) == [ frames |-> pop(st.frames), returned |-> Some(value) ]

\* A variant whose evaluate turns a full call stack into the empty value.
enterSwallowing(fs, st) ==
  LET cell == st.frames[Len(st.frames)]
  IN IF ~mapHas(fs, cell) THEN returnValue(st, EmptyValue)
     ELSE LET root == mapGet(fs, cell).ast.root
          IN IF ~mapHas(fs, << root.row, root.col >>) THEN returnValue(st, EmptyValue)
             ELSE IF Len(st.frames) >= MaxStack THEN returnValue(st, EmptyValue)
             ELSE [ st EXCEPT !.frames = Append(@, << root.row, root.col >>) ]

\* The body of the evaluateFormula call on top of the stack, up to its
\* return or its nested call: an absent slot is the empty value; the tree
\* (a cell reference) is evaluated by asking the context for the referenced
\* cell, which for a formula cell calls evaluateFormula on it and otherwise
\* yields the empty value.  A call the stack cannot hold throws a
\* RangeError, which the try/catch of evaluate turns into an error value.
enter(fs, st) ==
  LET cell == st.frames[Len(st.frames)]
  IN IF ~mapHas(fs, cell) THEN returnValue(st, EmptyValue)
     ELSE LET root == mapGet(fs, cell).ast.root
          IN IF ~mapHas(fs, << root.row, root.col >>) THEN returnValue(st, EmptyValue)
             ELSE IF Len(st.frames) >= MaxStack THEN returnValue(st, errorValue(RangeErrorMsg))
             ELSE [ st EXCEPT !.frames = Append(@, << root.row, root.col >>) ]

\* The caller on top of the stack receives the value of its nested call:
\* getCellValue, evaluateCellReference, evaluate and evaluateFormula each
\* return it as it is.
resume(st) == [ st EXCEPT !.frames = pop(@) ]

(***************************************************************************)
(* A structural edit statement by statement: `pc` is the statement the     *)
(* handler is at, i the position of its loop, `before` the registry the    *)
(* handler started from, and `log` what it has done so far.                *)
(***************************************************************************)
Event(kind, key) == [ kind |-> kind, row |-> key[1], col |-> key[2] ]

NoEdit ==
  [ pc |-> "idle", op |-> "", at |-> 0, i |-> 0, newFormulas |-> << >>,
    before |-> << >>, log |-> << >> ]

\* A variant of the loop of recalculateAllFormulas that runs from the last
\* entry of the registry to the first.
recalculateNextBackwards(fs, i) == fs[Len(fs) + 1 - i].key

\* The key the loop of recalculateAllFormulas is at in its round i: the
\* Map's iteration order.
recalculateNext(fs, i) == fs[i].key

(***************************************************************************)
(* The state machine.                                                      *)
(***************************************************************************)
VARIABLES
  formulas,               \* FormulaManager.formulas
  updateFormulaCallback,  \* whether a callback has been registered
  calls,                  \* the callback invocations of the last operation
  outcome,                \* the last operation, its arguments and its result
  sparseMatrix,           \* the SparseMatrix store
  virtualGrid,            \* the VirtualGrid
  callStack,              \* the evaluateFormula calls in progress
  editProgress            \* the structural edit in progress, step by step

vars == << formulas, updateFormulaCallback, calls, outcome, sparseMatrix, virtualGrid, callStack, editProgress >>

Outcome(op, row, col, text, ctx, threw, msg, result) ==
  [ op |-> op, row |-> row, col |-> col, text |-> text, ctx |-> ctx,
    threw |-> threw, msg |-> msg, result |-> result ]

Init ==
  /\ formulas = << >>
  /\ updateFormulaCallback = FALSE
  /\ calls = << >>
  /\ outcome = Outcome("constructor", 0, 0, << >>, "", FALSE, << >>, EmptyValue)
  /\ sparseMatrix = NewSparseMatrix(DefaultBlockSize)
  /\ virtualGrid = NewVirtualGrid(MaxCanvasSize, MaxCanvasSize, 1, 1, MaxGridSize, MaxGridSize)
  /\ callStack = NoCalls
  /\ editProgress = NoEdit

SetUpdateFormulaCallback ==
  /\ updateFormulaCallback' = TRUE
  /\ calls' = << >>
  /\ outcome' = Outcome("setUpdateFormulaCallback", 0, 0, << >>, "", FALSE, << >>, EmptyValue)
  /\ UNCHANGED << formulas, sparseMatrix, virtualGrid, callStack, editProgress >>

SetFormulaWith(text, r) ==
  /\ formulas' = r.formulas
  /\ outcome' = Outcome("setFormula", 0, 0, text, "", r.threw, r.msg, EmptyValue)
  /\ calls' = << >>
  /\ UNCHANGED << updateFormulaCallback, sparseMatrix, virtualGrid, callStack, editProgress >>

SetFormula ==
  \E row \in Coords, col \in Coords, text \in Texts :
    /\ mapHas(formulas, << row, col >>) \/ Len(formulas) < MaxFormulas
    /\ SetFormulaWith(text, setFormula(formulas, row, col, text))

RemoveFormula ==
  \E row \in Coords, col \in Coords :
    /\ formulas' = removeFormula(formulas, row, col)
    /\ outcome' = Outcome("removeFormula", 0, 0, << >>, "", FALSE, << >>, EmptyValue)
    /\ calls' = << >>
    /\ UNCHANGED << updateFormulaCallback, sparseMatrix, virtualGrid, callStack, editProgress >>

EvaluateFormulaWith(row, col, ctx, r) ==
  /\ outcome' = Outcome("evaluateFormula", row, col, << >>, ctx, ~r.ok,
                        IF r.ok THEN << >> ELSE r.msg,
                        IF r.ok THEN r.val ELSE EmptyValue)
  /\ calls' = << >>
  /\ UNCHANGED << formulas, updateFormulaCallback, sparseMatrix, virtualGrid, callStack, editProgress >>

EvaluateFormula ==
  \E row \in Coords, col \in Coords, ctx \in Contexts :
    EvaluateFormulaWith(row, col, ctx, evaluateFormula(formulas, ctx, row, col))

\* One of the four handlers, at index `at` (kept in outcome.row), r being
\* what the handler does to the registry.
Edit(op, at, r) ==
  /\ InBounds(r.formulas)
  /\ formulas' = r.formulas
  /\ calls' = r.calls
  /\ outcome' = Outcome(op, at, 0, << >>, "", r.threw, r.msg, EmptyValue)
  /\ UNCHANGED << updateFormulaCallback, sparseMatrix, virtualGrid, callStack, editProgress >>

HandleRowInsertion ==
  \E atRow \in Coords :
    Edit("handleRowInsertion", atRow,
         handleRowInsertion(formulas, atRow, updateFormulaCallback))

HandleRowDeletion ==
  \E atRow \in Coords :
    Edit("handleRowDeletion", atRow,
         handleRowDeletion(formulas, atRow, updateFormulaCallback))

HandleColumnInsertion ==
  \E atCol \in Coords :
    Edit("handleColumnInsertion", atCol,
         handleColumnInsertion(formulas, atCol, updateFormulaCallback))

HandleColumnDeletion ==
  \E atCol \in Coords :
    Edit("handleColumnDeletion", atCol,
         handleColumnDeletion(formulas, atCol, updateFormulaCallback))

Next ==
  \/ SetUpdateFormulaCallback
  \/ SetFormula
  \/ RemoveFormula
  \/ HandleRowInsertion
  \/ HandleRowDeletion
  \/ HandleColumnInsertion
  \/ HandleColumnDeletion

Spec == Init /\ [][Next]_vars

\* The registry under evaluation: formulas are set and evaluated.
\* The registry under formula texts that name row number 0.
SetAcceptedFormula ==
  \E row \in Coords, col \in Coords, text \in AcceptedTexts :
    /\ mapHas(formulas, << row, col >>) \/ Len(formulas) < MaxFormulas
    /\ SetFormulaWith(text, setFormula(formulas, row, col, text))

NextAccepted ==
  \/ SetUpdateFormulaCallback
  \/ SetAcceptedFormula
  \/ RemoveFormula
  \/ HandleRowInsertion
  \/ HandleRowDeletion
  \/ HandleColumnInsertion
  \/ HandleColumnDeletion

SpecAccepted == Init /\ [][NextAccepted]_vars

\* The grid alone.  `outcome` is the last operation and, of a
\* getVisibleCells, the array it returned.
GridOutcome(op, result) == [ op |-> op, result |-> result ]

GridStep(op, g) ==
  /\ virtualGrid' = g
  /\ outcome' = GridOutcome(op, NoArray)
  /\ UNCHANGED << formulas, updateFormulaCallback, calls, sparseMatrix, callStack, editProgress >>

InitGrid ==
  /\ formulas = << >>
  /\ updateFormulaCallback = FALSE
  /\ calls = << >>
  /\ outcome = GridOutcome("constructor", NoArray)
  /\ sparseMatrix = NewSparseMatrix(DefaultBlockSize)
  /\ \E canvas \in Sizes, cell \in Sizes :
       virtualGrid = NewVirtualGrid(canvas, canvas, cell, cell, MaxGridSize, MaxGridSize)
  /\ callStack = NoCalls
  /\ editProgress = NoEdit

GetVisibleCellsWith(r) ==
  /\ r.grid.arrays <= MaxArrays
  /\ virtualGrid' = r.grid
  /\ outcome' = GridOutcome("getVisibleCells", r.cells)
  /\ UNCHANGED << formulas, updateFormulaCallback, calls, sparseMatrix, callStack, editProgress >>

GetVisibleCells == GetVisibleCellsWith(getVisibleCells(virtualGrid))

SetViewport ==
  \E startRow \in GridCoords, startCol \in GridCoords,
     endRow \in GridCoords, endCol \in GridCoords :
    GridStep("setViewport", setViewport(virtualGrid, startRow, startCol, endRow, endCol))

ScrollTo ==
  \E row \in GridCoords, col \in GridCoords :
    GridStep("scrollTo", scrollTo(virtualGrid, row, col))

ScrollUp == GridStep("scrollUp", scrollUp(virtualGrid))

ScrollDown == GridStep("scrollDown", scrollDown(virtualGrid))

ScrollLeft == GridStep("scrollLeft", scrollLeft(virtualGrid))

ScrollRight == GridStep("scrollRight", scrollRight(virtualGrid))

UpdateCanvasSize ==
  \E width \in Sizes, height \in Sizes :
    GridStep("updateCanvasSize", updateCanvasSize(virtualGrid, width, height))

SetCellSize ==
  \E width \in Sizes, height \in Sizes :
    GridStep("setCellSize", setCellSize(virtualGrid, width, height))

NextGrid ==
  \/ GetVisibleCells
  \/ SetViewport
  \/ ScrollTo
  \/ ScrollUp
  \/ ScrollDown
  \/ ScrollLeft
  \/ ScrollRight
  \/ UpdateCanvasSize
  \/ SetCellSize

SpecGrid == InitGrid /\ [][NextGrid]_vars

\* Formulas that refer to one another, evaluated under the App's context.
\* `outcome` holds the last call, whether it has returned, and its result.
CycleTexts == { TextA1, TextB1, TextA2 }

CycleOutcome(op, row, col, threw, done, result) ==
  [ op |-> op, row |-> row, col |-> col, threw |-> threw, done |-> done, result |-> result ]

InitCycle ==
  /\ formulas = << >>
  /\ updateFormulaCallback = FALSE
  /\ calls = << >>
  /\ outcome = CycleOutcome("constructor", 0, 0, FALSE, TRUE, EmptyValue)
  /\ sparseMatrix = NewSparseMatrix(DefaultBlockSize)
  /\ virtualGrid = NewVirtualGrid(MaxCanvasSize, MaxCanvasSize, 1, 1, MaxGridSize, MaxGridSize)
  /\ callStack = NoCalls
  /\ editProgress = NoEdit

SetCycleFormulaWith(row, col, r) ==
  /\ formulas' = r.formulas
  /\ outcome' = CycleOutcome("setFormula", row, col, r.threw, TRUE, EmptyValue)
  /\ UNCHANGED << updateFormulaCallback, calls, sparseMatrix, virtualGrid, callStack, editProgress >>

SetCycleFormula ==
  \E row \in Coords, col \in Coords, text \in CycleTexts :
    /\ callStack.frames = << >>
    /\ mapHas(formulas, << row, col >>) \/ Len(formulas) < MaxFormulas
    /\ SetCycleFormulaWith(row, col, setFormula(formulas, row, col, text))

\* evaluateFormula(row, col) is called.
CallEvaluateFormula ==
  \E row \in Coords, col \in Coords :
    /\ callStack.frames = << >>
    /\ callStack' = [ frames |-> << << row, col >> >>, returned |-> None ]
    /\ outcome' = CycleOutcome("evaluateFormula", row, col, FALSE, FALSE, EmptyValue)
    /\ UNCHANGED << formulas, updateFormulaCallback, calls, sparseMatrix, virtualGrid, editProgress >>

\* The outermost call has returned when no frame is left.
Proceed(st) ==
  /\ callStack' = st
  /\ outcome' = IF st.frames = << >>
                THEN [ outcome EXCEPT !.done = TRUE, !.result = st.returned.v ]
                ELSE outcome
  /\ UNCHANGED << formulas, updateFormulaCallback, calls, sparseMatrix, virtualGrid, editProgress >>

Enter ==
  /\ callStack.frames # << >>
  /\ ~callStack.returned.def
  /\ Proceed(enter(formulas, callStack))

Resume ==
  /\ callStack.frames # << >>
  /\ callStack.returned.def
  /\ Proceed(resume(callStack))

NextCycle ==
  \/ SetCycleFormula
  \/ CallEvaluateFormula
  \/ Enter
  \/ Resume

\* The evaluation is synchronous: a call in progress runs on.
SpecCycle ==
  InitCycle /\ [][NextCycle]_vars /\ WF_vars(Enter) /\ WF_vars(Resume)

\* The handlers run statement by statement.
BeginEdit ==
  \E op \in EditOps, at \in Coords :
    /\ editProgress.pc = "idle"
    /\ InBounds(structuralEdit(formulas, op, at, updateFormulaCallback).formulas)
    /\ editProgress' = [ pc |-> "sweep", op |-> op, at |-> at, i |-> 1,
                         newFormulas |-> << >>, before |-> formulas, log |-> << >> ]
    /\ calls' = << >>
    /\ outcome' = Outcome("begin", at, 0, << >>, "", FALSE, << >>, EmptyValue)
    /\ UNCHANGED << formulas, updateFormulaCallback, sparseMatrix, virtualGrid, callStack >>

\* A variant of the round that writes into the registry itself, so that a
\* throw leaves the entries made so far in it.
SweepRoundInstalling(e, key, shifted) ==
  /\ e.pc = "sweep"
  /\ e.i <= Len(formulas)
  /\ IF isDropped(e.op, e.at, formulas[e.i].key)
     THEN /\ editProgress' = [ e EXCEPT !.i = e.i + 1 ]
          /\ UNCHANGED << formulas, calls, outcome >>
     ELSE IF ~shifted.ok
     THEN /\ editProgress' = [ e EXCEPT !.pc = "idle" ]
          /\ outcome' = Outcome(e.op, e.at, 0, << >>, "", TRUE, shifted.msg, EmptyValue)
          /\ formulas' = e.newFormulas
          /\ UNCHANGED calls
     ELSE /\ editProgress' =
               [ e EXCEPT !.i = e.i + 1,
                          !.newFormulas =
                            mapSet(e.newFormulas,
                                   [ key |-> key, ast |-> shifted.ast,
                                     dependencies |-> extractDependencies(shifted.ast.root),
                                     dependents |-> { } ]),
                          !.log = IF updateFormulaCallback
                                  THEN Append(e.log, Event("callback", key))
                                  ELSE e.log ]
          /\ calls' = IF updateFormulaCallback
                      THEN Append(calls, [ row |-> key[1], col |-> key[2],
                                           formula |-> << "=" >> \o formatFormula(shifted.ast.root) ])
                      ELSE calls
          /\ UNCHANGED << formulas, outcome >>
  /\ UNCHANGED << updateFormulaCallback, sparseMatrix, virtualGrid, callStack >>

\* One round of `for (const [cellKey, formulaInfo] of this.formulas)`.
SweepRoundWith(e, key, shifted) ==
  /\ e.pc = "sweep"
  /\ e.i <= Len(formulas)
  /\ IF isDropped(e.op, e.at, formulas[e.i].key)
     THEN /\ editProgress' = [ e EXCEPT !.i = e.i + 1 ]
          /\ UNCHANGED << calls, outcome >>
     ELSE IF ~shifted.ok
     THEN /\ editProgress' = [ e EXCEPT !.pc = "idle" ]
          /\ outcome' = Outcome(e.op, e.at, 0, << >>, "", TRUE, shifted.msg, EmptyValue)
          /\ UNCHANGED calls
     ELSE /\ editProgress' =
               [ e EXCEPT !.i = e.i + 1,
                          !.newFormulas =
                            mapSet(e.newFormulas,
                                   [ key |-> key, ast |-> shifted.ast,
                                     dependencies |-> extractDependencies(shifted.ast.root),
                                     dependents |-> { } ]),
                          !.log = IF updateFormulaCallback
                                  THEN Append(e.log, Event("callback", key))
                                  ELSE e.log ]
          /\ calls' = IF updateFormulaCallback
                      THEN Append(calls, [ row |-> key[1], col |-> key[2],
                                           formula |-> << "=" >> \o formatFormula(shifted.ast.root) ])
                      ELSE calls
          /\ UNCHANGED outcome
  /\ UNCHANGED << formulas, updateFormulaCallback, sparseMatrix, virtualGrid, callStack >>

SweepRound ==
  /\ editProgress.pc = "sweep"
  /\ editProgress.i <= Len(formulas)
  /\ SweepRoundWith(editProgress,
                    newKey(editProgress.op, editProgress.at, formulas[editProgress.i].key),
                    shiftFor(editProgress.op, editProgress.at, formulas[editProgress.i].ast))

\* this.formulas = newFormulas
ReplaceRegistry ==
  /\ editProgress.pc = "sweep"
  /\ editProgress.i > Len(formulas)
  /\ formulas' = editProgress.newFormulas
  /\ editProgress' = [ editProgress EXCEPT !.pc = "rebuild",
                                          !.log = Append(@, Event("replace", << 0, 0 >>)) ]
  /\ UNCHANGED << updateFormulaCallback, calls, outcome, sparseMatrix, virtualGrid, callStack >>

\* this.rebuildDependencies()
RebuildDependencies ==
  /\ editProgress.pc = "rebuild"
  /\ formulas' = rebuildDependencies(formulas)
  /\ editProgress' = [ editProgress EXCEPT !.pc = "recalculate", !.i = 1,
                                          !.log = Append(@, Event("rebuild", << 0, 0 >>)) ]
  /\ UNCHANGED << updateFormulaCallback, calls, outcome, sparseMatrix, virtualGrid, callStack >>

\* One round of the loop of recalculateAllFormulas: evaluateFormula of the
\* key, whose result is logged to the console and dropped.
RecalculateRoundWith(e, key) ==
  /\ editProgress' = [ e EXCEPT !.i = e.i + 1, !.log = Append(@, Event("evaluate", key)) ]
  /\ UNCHANGED << formulas, updateFormulaCallback, calls, outcome, sparseMatrix,
                  virtualGrid, callStack >>

RecalculateRound ==
  /\ editProgress.pc = "recalculate"
  /\ editProgress.i <= Len(formulas)
  /\ RecalculateRoundWith(editProgress, recalculateNext(formulas, editProgress.i))

\* The handler returns.
EndEdit ==
  /\ editProgress.pc = "recalculate"
  /\ editProgress.i > Len(formulas)
  /\ editProgress' = [ editProgress EXCEPT !.pc = "idle" ]
  /\ outcome' = Outcome(editProgress.op, editProgress.at, 0, << >>, "", FALSE, << >>,
                        EmptyValue)
  /\ UNCHANGED << formulas, updateFormulaCallback, calls, sparseMatrix, virtualGrid,
                  callStack >>

\* Between two edits: a callback is registered, a formula is set.  The
\* record of the last edit is dropped.
RegisterCallback ==
  /\ editProgress.pc = "idle"
  /\ updateFormulaCallback' = TRUE
  /\ calls' = << >>
  /\ outcome' = Outcome("setUpdateFormulaCallback", 0, 0, << >>, "", FALSE, << >>, EmptyValue)
  /\ editProgress' = NoEdit
  /\ UNCHANGED << formulas, sparseMatrix, virtualGrid, callStack >>

SetFormulaBetweenWith(text, r) ==
  /\ formulas' = r.formulas
  /\ outcome' = Outcome("setFormula", 0, 0, text, "", r.threw, r.msg, EmptyValue)
  /\ calls' = << >>
  /\ editProgress' = NoEdit
  /\ UNCHANGED << updateFormulaCallback, sparseMatrix, virtualGrid, callStack >>

SetFormulaBetween ==
  \E row \in Coords, col \in Coords, text \in Texts :
    /\ editProgress.pc = "idle"
    /\ mapHas(formulas, << row, col >>) \/ Len(formulas) < MaxFormulas
    /\ SetFormulaBetweenWith(text, setFormula(formulas, row, col, text))

NextOrder ==
  \/ RegisterCallback
  \/ SetFormulaBetween
  \/ BeginEdit
  \/ SweepRound
  \/ ReplaceRegistry
  \/ RebuildDependencies
  \/ RecalculateRound
  \/ EndEdit

SpecOrder == Init /\ [][NextOrder]_vars

\* The parser on the texts of ParseTexts, through setFormula.
SetParseFormulaWith(row, col, text, r) ==
  /\ formulas' = r.formulas
  /\ outcome' = Outcome("setFormula", row, col, text, "", r.threw, r.msg, EmptyValue)
  /\ calls' = << >>
  /\ UNCHANGED << updateFormulaCallback, sparseMatrix, virtualGrid, callStack, editProgress >>

SetParseFormula ==
  \E row \in Coords, col \in Coords, text \in ParseTexts :
    /\ mapHas(formulas, << row, col >>) \/ Len(formulas) < MaxFormulas
    /\ SetParseFormulaWith(row, col, text, setFormula(formulas, row, col, text))

NextParse ==
  \/ SetParseFormula
  \/ RemoveFormula

SpecParse == Init /\ [][NextParse]_vars

\* An insertion followed at once by the deletion at the same index.
RoundTripOps == { "insertThenDeleteRow", "insertThenDeleteColumn" }

\* The deletion after the insertion `inserted`, which it does not reach when
\* the insertion threw; the callbacks of both are kept.
thenDelete(inserted, deleted) ==
  IF inserted.threw THEN inserted
  ELSE [ deleted EXCEPT !.calls = inserted.calls \o deleted.calls ]

InsertThenDeleteWith(op, at, r) ==
  /\ formulas' = r.formulas
  /\ calls' = r.calls
  /\ outcome' = Outcome(op, at, 0, << >>, "", r.threw, r.msg, EmptyValue)
  /\ UNCHANGED << updateFormulaCallback, sparseMatrix, virtualGrid, callStack, editProgress >>

InsertThenDeleteRowWith(at, inserted) ==
  InsertThenDeleteWith("insertThenDeleteRow", at,
                       thenDelete(inserted,
                                  handleRowDeletion(inserted.formulas, at,
                                                    updateFormulaCallback)))

InsertThenDeleteRow ==
  \E at \in 0 .. MaxCoord + 1 :
    InsertThenDeleteRowWith(at, handleRowInsertion(formulas, at, updateFormulaCallback))

InsertThenDeleteColumnWith(at, inserted) ==
  InsertThenDeleteWith("insertThenDeleteColumn", at,
                       thenDelete(inserted,
                                  handleColumnDeletion(inserted.formulas, at,
                                                       updateFormulaCallback)))

InsertThenDeleteColumn ==
  \E at \in 0 .. MaxCoord + 1 :
    InsertThenDeleteColumnWith(at, handleColumnInsertion(formulas, at, updateFormulaCallback))

NextRoundTrip ==
  \/ SetUpdateFormulaCallback
  \/ SetAcceptedFormula
  \/ RemoveFormula
  \/ HandleRowInsertion
  \/ HandleRowDeletion
  \/ HandleColumnInsertion
  \/ HandleColumnDeletion
  \/ InsertThenDeleteRow
  \/ InsertThenDeleteColumn

SpecRoundTrip == Init /\ [][NextRoundTrip]_vars

NextEval ==
  \/ SetFormula
  \/ EvaluateFormula

SpecEval == Init /\ [][NextEval]_vars

\* The engine on one formula: a text is set at A1, as the test suite does,
\* and evaluated under each context.
SetEngineFormula ==
  \E text \in EngineTexts : SetFormulaWith(text, setFormula(formulas, 0, 0, text))

EvaluateEngineFormula ==
  \E ctx \in EngineContexts :
    EvaluateFormulaWith(0, 0, ctx, evaluateFormula(formulas, ctx, 0, 0))

NextEngine ==
  \/ SetEngineFormula
  \/ EvaluateEngineFormula

SpecEngine == Init /\ [][NextEngine]_vars

\* The store: constructed with a block size, then written and read.
MatrixOutcome(op, row, col, value, found, threw, result) ==
  [ op |-> op, row |-> row, col |-> col, value |-> value, found |-> found,
    threw |-> threw, result |-> result ]

InitMatrix ==
  /\ formulas = << >>
  /\ updateFormulaCallback = FALSE
  /\ calls = << >>
  /\ outcome = Outcome("constructor", 0, 0, << >>, "", FALSE, << >>, EmptyValue)
  /\ \E blockSize \in BlockSizes : sparseMatrix = NewSparseMatrix(blockSize)
  /\ virtualGrid = NewVirtualGrid(MaxCanvasSize, MaxCanvasSize, 1, 1, MaxGridSize, MaxGridSize)
  /\ callStack = NoCalls
  /\ editProgress = NoEdit

\* found: whether the cell was present before the call.
SetCell ==
  \E row \in Coords, col \in Coords, i \in 1..Len(CellInputs) :
    /\ sparseMatrix' = setCell(sparseMatrix, row, col, CellInputs[i])
    /\ outcome' = MatrixOutcome("setCell", row, col, CellInputs[i],
                                hasCell(sparseMatrix, row, col), FALSE, JsUndefined)
    /\ UNCHANGED << formulas, updateFormulaCallback, calls, virtualGrid, callStack, editProgress >>

GetCell ==
  \E row \in Coords, col \in Coords :
    /\ outcome' = MatrixOutcome("getCell", row, col, JsUndefined,
                                hasCell(sparseMatrix, row, col), FALSE,
                                getCell(sparseMatrix, row, col))
    /\ UNCHANGED << formulas, updateFormulaCallback, calls, sparseMatrix, virtualGrid, callStack, editProgress >>

GetAllCells ==
  /\ outcome' = MatrixOutcome("getAllCells", 0, 0, JsUndefined, FALSE, FALSE,
                              getAllCells(sparseMatrix))
  /\ UNCHANGED << formulas, updateFormulaCallback, calls, sparseMatrix, virtualGrid, callStack, editProgress >>

RemoveCell ==
  \E row \in Coords, col \in Coords :
    /\ sparseMatrix' = removeCell(sparseMatrix, row, col)
    /\ outcome' = MatrixOutcome("removeCell", row, col, JsUndefined,
                                hasCell(sparseMatrix, row, col), FALSE, JsUndefined)
    /\ UNCHANGED << formulas, updateFormulaCallback, calls, virtualGrid, callStack, editProgress >>

Clear ==
  /\ sparseMatrix' = clear(sparseMatrix)
  /\ outcome' = MatrixOutcome("clear", 0, 0, JsUndefined, FALSE, FALSE, JsUndefined)
  /\ UNCHANGED << formulas, updateFormulaCallback, calls, virtualGrid, callStack, editProgress >>

Optimize ==
  /\ sparseMatrix' = optimize(sparseMatrix)
  /\ outcome' = MatrixOutcome("optimize", 0, 0, JsUndefined, FALSE, FALSE, JsUndefined)
  /\ UNCHANGED << formulas, updateFormulaCallback, calls, virtualGrid, callStack, editProgress >>

\* importFromJSON of the payload `name`, r being what the call does.
ImportFromJSONWith(name, r) ==
  /\ sparseMatrix' = r.matrix
  /\ outcome' = MatrixOutcome("importFromJSON", 0, 0, name, FALSE, r.threw, JsUndefined)
  /\ UNCHANGED << formulas, updateFormulaCallback, calls, virtualGrid, callStack, editProgress >>

ImportFromJSON ==
  \E name \in Payloads :
    ImportFromJSONWith(name, importFromJSON(sparseMatrix, PayloadText(name)))

\* const json = sparseMatrix.exportToJSON(); const newMatrix = new
\* SparseMatrix(); newMatrix.importFromJSON(json): r is what the import
\* does to the new store, which is kept as the result.
ImportExportedWith(r) ==
  /\ outcome' = MatrixOutcome("importExported", 0, 0, JsUndefined, FALSE, r.threw, r.matrix)
  /\ UNCHANGED << formulas, updateFormulaCallback, calls, sparseMatrix, virtualGrid, callStack, editProgress >>

ImportExported ==
  ImportExportedWith(importFromJSON(NewSparseMatrix(DefaultBlockSize),
                                    exportToJSON(sparseMatrix)))

NextMatrix ==
  \/ SetCell
  \/ GetCell
  \/ GetAllCells
  \/ RemoveCell
  \/ Clear
  \/ ImportExported

SpecMatrix == InitMatrix /\ [][NextMatrix]_vars

\* The store under imports of arbitrary texts.
NextImport ==
  \/ SetCell
  \/ RemoveCell
  \/ Clear
  \/ Optimize
  \/ ImportFromJSON

SpecImport == InitMatrix /\ [][NextImport]_vars

(***************************************************************************)
(* Properties of the dependency graph.                                     *)
(***************************************************************************)
\* The cell and range nodes of a tree.
RECURSIVE Leaves(_)
Leaves(n) ==
  CASE n.type = "cell" -> { n }
    [] n.type = "range" -> { n }
    [] n.type = "function" -> UNION { Leaves(n.args[i]) : i \in 1..Len(n.args) }
    [] n.type = "binary" -> Leaves(n.left) \cup Leaves(n.right)
    [] n.type = "unary" -> Leaves(n.operand)
    [] OTHER -> { }

\* The coordinate key lies on the cell, or within the rectangle of the range.
Covers(leaf, key) ==
  IF leaf.type = "cell"
  THEN key = << leaf.row, leaf.col >>
  ELSE /\ leaf.startRow <= key[1] /\ key[1] <= leaf.endRow
       /\ leaf.startCol <= key[2] /\ key[2] <= leaf.endCol

\* C1: in every reachable state each registered formula's dependencies are
\* exactly the keys its current tree covers: the coordinate of each cell
\* reference and every coordinate of the rectangle of each range.
DependenciesMatchTree ==
  \A i \in 1..Len(formulas) :
    /\ \A key \in formulas[i].dependencies :
         \E leaf \in Leaves(formulas[i].ast.root) : Covers(leaf, key)
    /\ \A leaf \in Leaves(formulas[i].ast.root) :
         \A row \in Coords, col \in Coords :
           Covers(leaf, << row, col >>) => << row, col >> \in formulas[i].dependencies

\* A row insertion has just stretched a range to a rectangle of four cells,
\* all of them dependencies of its formula.
RangeStretchedByInsertion ==
  /\ outcome.op = "handleRowInsertion"
  /\ \E i \in 1..Len(formulas) :
       /\ \E leaf \in Leaves(formulas[i].ast.root) :
            leaf.type = "range" /\ leaf.startRow = 0 /\ leaf.endRow = 1
              /\ leaf.startCol = 0 /\ leaf.endCol = 1
       /\ Cardinality(formulas[i].dependencies) = 4

\* C2: for any two registered formulas X and Y, X's key is in Y's
\* dependents if and only if Y's key is in X's dependencies.
DependentsTransposeDependencies ==
  \A x \in 1..Len(formulas), y \in 1..Len(formulas) :
    formulas[x].key \in formulas[y].dependents
      <=> formulas[y].key \in formulas[x].dependencies

(***************************************************************************)
(* Properties of the structural edits.  A step of a handler is recognised  *)
(* by outcome'.op, its index is outcome'.row; formulas is the registry     *)
(* before the call and formulas' the registry after it.                    *)
(***************************************************************************)
RowOps == { "handleRowInsertion", "handleRowDeletion" }

InsertionOps == { "handleRowInsertion", "handleColumnInsertion" }

\* The cell references of a tree in the order of the text: each cell node
\* and the two endpoints of each range node.
RECURSIVE ReferenceList(_)
RECURSIVE ArgsReferenceList(_, _)
ArgsReferenceList(args, i) ==
  IF i > Len(args) THEN << >>
  ELSE ReferenceList(args[i]) \o ArgsReferenceList(args, i + 1)

ReferenceList(n) ==
  CASE n.type = "cell" -> << n >>
    [] n.type = "range" -> << rangeStart(n), rangeEnd(n) >>
    [] n.type = "function" -> ArgsReferenceList(n.args, 1)
    [] n.type = "binary" -> ReferenceList(n.left) \o ReferenceList(n.right)
    [] n.type = "unary" -> ReferenceList(n.operand)
    [] OTHER -> << >>

\* The index of a key or of a reference on the axis of the edit, and
\* whether the reference is absolute on that axis.
KeyIndex(op, key) == IF op \in RowOps THEN key[1] ELSE key[2]

RefIndex(op, ref) == IF op \in RowOps THEN ref.row ELSE ref.col

RefAbsolute(op, ref) == IF op \in RowOps THEN ref.absoluteRow ELSE ref.absoluteCol

\* A key or a reference with its index on the axis of the edit replaced.
KeyAt(op, key, v) == IF op \in RowOps THEN << v, key[2] >> ELSE << key[1], v >>

RefAt(op, ref, v) ==
  IF op \in RowOps THEN [ ref EXCEPT !.row = v ] ELSE [ ref EXCEPT !.col = v ]

\* Where an insertion at k is to put an index, and a reference.
Inserted(v, k) == IF v >= k THEN v + 1 ELSE v

InsertedRef(op, ref, k) ==
  IF RefAbsolute(op, ref) THEN ref ELSE RefAt(op, ref, Inserted(RefIndex(op, ref), k))

\* Where a deletion of line r is to put an index off that line, and a
\* reference.
Deleted(v, r) == IF v > r THEN v - 1 ELSE v

DeletedRef(op, ref, r) ==
  IF RefAbsolute(op, ref) THEN ref ELSE RefAt(op, ref, Deleted(RefIndex(op, ref), r))

\* The formulas that are not on the deleted line, in registry order.
OnLine(op, r, entry) == KeyIndex(op, entry.key) = r

Survivors(fs, op, r) == SelectSeq(fs, LAMBDA entry : ~OnLine(op, r, entry))

\* A reference a deletion of line r strands: on the line and not absolute
\* on the axis.
Stranded(op, ref, r) == ~RefAbsolute(op, ref) /\ RefIndex(op, ref) = r

InsertionStep(op, k, old, new) ==
  /\ Len(new) = Len(old)
  /\ \A i \in 1..Len(old) :
       /\ new[i].key = KeyAt(op, old[i].key, Inserted(KeyIndex(op, old[i].key), k))
       /\ ReferenceList(new[i].ast.root)
            = [ j \in 1..Len(ReferenceList(old[i].ast.root)) |->
                  InsertedRef(op, ReferenceList(old[i].ast.root)[j], k) ]

\* C3: handleRowInsertion(k) moves every formula of row >= k to row + 1
\* and keeps the others at their key; in every tree it adds 1 to each row
\* reference (cell or range endpoint) that is not row-absolute and is >= k,
\* and leaves row-absolute references, references below k and all column
\* parts as they were; handleColumnInsertion(k) does so on the column axis.
InsertionRelocatesAndShifts ==
  [][ outcome'.op \in InsertionOps
        => ~outcome'.threw /\ InsertionStep(outcome'.op, outcome'.row, formulas, formulas') ]_vars

\* A row insertion at 0 has moved a formula to row 1 and its reference B1 to
\* B2, and has left its absolute reference $A$1 alone.
InsertionMovedReference ==
  /\ outcome.op = "handleRowInsertion" /\ outcome.row = 0
  /\ \E i \in 1..Len(formulas) :
       /\ formulas[i].key[1] = 1
       /\ formulas[i].ast.root.type = "binary"
       /\ formulas[i].ast.root.left
            = [ type |-> "cell", row |-> 0, col |-> 0,
                absoluteRow |-> TRUE, absoluteCol |-> TRUE ]
       /\ formulas[i].ast.root.right
            = [ type |-> "cell", row |-> 1, col |-> 1,
                absoluteRow |-> FALSE, absoluteCol |-> FALSE ]

DeletionStep(op, r, kept, new) ==
  /\ Len(new) = Len(kept)
  /\ \A i \in 1..Len(kept) :
       /\ new[i].key = KeyAt(op, kept[i].key, Deleted(KeyIndex(op, kept[i].key), r))
       /\ ReferenceList(new[i].ast.root)
            = [ j \in 1..Len(ReferenceList(kept[i].ast.root)) |->
                  DeletedRef(op, ReferenceList(kept[i].ast.root)[j], r) ]

\* C4: a handleRowDeletion(r) that does not throw removes exactly the
\* formulas of row r, moves each formula of row > r to row - 1 and keeps
\* those of row < r at their key; it subtracts 1 from each row reference
\* that is not row-absolute and is > r, and leaves references below r and
\* row-absolute references (even at row r) as they were;
\* handleColumnDeletion(r) does so on the column axis.
DeletionRemovesAndShifts ==
  [][ outcome'.op \in DeletionOps /\ ~outcome'.threw
        => DeletionStep(outcome'.op, outcome'.row,
                        Survivors(formulas, outcome'.op, outcome'.row), formulas') ]_vars

\* A deletion of row 0 has moved a formula from row 1 to row 0; its range
\* A$1:$B1 starts at the row-absolute row 0, which stayed, and ends at a row
\* that came down from 1.
DeletionKeptAbsoluteReference ==
  /\ outcome.op = "handleRowDeletion" /\ outcome.row = 0 /\ ~outcome.threw
  /\ \E i \in 1..Len(formulas) :
       /\ formulas[i].key[1] = 0
       /\ ReferenceList(formulas[i].ast.root)
            = << [ type |-> "cell", row |-> 0, col |-> 0,
                   absoluteRow |-> TRUE, absoluteCol |-> FALSE ],
                 [ type |-> "cell", row |-> 0, col |-> 1,
                   absoluteRow |-> FALSE, absoluteCol |-> TRUE ] >>

\* Some formula off the deleted line holds a stranded reference.
StrandsReference(fs, op, r) ==
  \E i \in 1..Len(fs) :
    /\ ~OnLine(op, r, fs[i])
    /\ \E ref \in References(fs[i].ast.root) : Stranded(op, ref, r)

\* The message names, in A1 notation, a stranded reference of a formula
\* off the deleted line.
NamesStrandedReference(fs, op, r, msg) ==
  \E i \in 1..Len(fs) :
    /\ ~OnLine(op, r, fs[i])
    /\ \E ref \in References(fs[i].ast.root) :
         Stranded(op, ref, r) /\ msg = DanglingMsg(ref)

\* C5: handleRowDeletion(r) and handleColumnDeletion(r) throw whenever a
\* formula that is not on the deleted line holds a cell reference or range
\* endpoint that is on the line and not absolute on that axis, and the
\* message names such a reference in A1 notation.
DeletionThrowsOnStrandedReference ==
  [][ outcome'.op \in DeletionOps /\ StrandsReference(formulas, outcome'.op, outcome'.row)
        => /\ outcome'.threw
           /\ NamesStrandedReference(formulas, outcome'.op, outcome'.row, outcome'.msg) ]_vars

\* The deletion of row 1 under =SUM(A1:B2), held in row 0, has thrown and
\* reports B2.
DeletionReportsB2 ==
  /\ outcome.op = "handleRowDeletion" /\ outcome.row = 1 /\ outcome.threw
  /\ outcome.msg = << "reference to deleted cell: ", "B", "2" >>
  /\ \E i \in 1..Len(formulas) :
       formulas[i].key[1] = 0 /\ formulas[i].ast.originalFormula = TextSumRange

\* The formulas a handler keeps, in registry order, and where it puts a key.
Kept(fs, op, r) == IF op \in DeletionOps THEN Survivors(fs, op, r) ELSE fs

MovedKey(op, key, r) ==
  KeyAt(op, key, IF op \in DeletionOps THEN Deleted(KeyIndex(op, key), r)
                 ELSE Inserted(KeyIndex(op, key), r))

HasStranded(op, entry, r) ==
  \E ref \in References(entry.ast.root) : Stranded(op, ref, r)

\* How many of the kept formulas a deletion visits before the first one that
\* strands a reference.
VisitedCount(kept, op, r) ==
  Cardinality({ i \in 1..Len(kept) : \A j \in 1..i : ~HasStranded(op, kept[j], r) })

\* The registry holds the formula re-keyed and rewritten.
HoldsRewritten(new, op, r, entry) ==
  \E j \in 1..Len(new) :
    /\ new[j].key = MovedKey(op, entry.key, r)
    /\ ReferenceList(new[j].ast.root)
         = [ k \in 1..Len(ReferenceList(entry.ast.root)) |->
               DeletedRef(op, ReferenceList(entry.ast.root)[k], r) ]

\* The callback has been invoked for the visited formulas, in order, with
\* the coordinate each is to move to.
CallsForVisited(made, kept, op, r, callback) ==
  /\ Len(made) = IF callback THEN VisitedCount(kept, op, r) ELSE 0
  /\ \A i \in 1..Len(made) :
       << made[i].row, made[i].col >> = MovedKey(op, kept[i].key, r)

\* C6, as stated: when a deletion throws partway through its sweep the
\* registry holds the formulas visited before the failing one re-keyed and
\* rewritten, and the later ones as they were.
ThrowLeavesRegistryPartlyRewritten ==
  [][ outcome'.op \in DeletionOps /\ outcome'.threw
        => LET kept == Kept(formulas, outcome'.op, outcome'.row)
               n == VisitedCount(kept, outcome'.op, outcome'.row)
           IN /\ \A i \in 1..n :
                   HoldsRewritten(formulas', outcome'.op, outcome'.row, kept[i])
              /\ \A i \in (n + 1)..Len(kept) :
                   \E j \in 1..Len(formulas') : formulas'[j] = kept[i] ]_vars

\* C6, amended: when a deletion throws partway through its sweep the
\* registry is exactly as it was before the call; what the formulas visited
\* before the failing one have already received is the callback, with the
\* coordinate each was to move to.
ThrowLeavesRegistryUntouched ==
  [][ outcome'.op \in DeletionOps /\ outcome'.threw
        => /\ formulas' = formulas
           /\ CallsForVisited(calls', Kept(formulas, outcome'.op, outcome'.row),
                              outcome'.op, outcome'.row, updateFormulaCallback) ]_vars

\* A deletion of column 0 has thrown after the callback was told to move a
\* formula from column 1 to column 0; the registry holds nothing at the new
\* coordinate and still holds the formula in column 1.
ThrowAfterCallback ==
  /\ outcome.op = "handleColumnDeletion" /\ outcome.row = 0 /\ outcome.threw
  /\ Len(calls) = 1 /\ calls[1].col = 0
  /\ ~mapHas(formulas, << calls[1].row, calls[1].col >>)
  /\ mapHas(formulas, << calls[1].row, 1 >>)

\* C7: for a text the parser rejects, setFormula throws and leaves the
\* whole registry as it was: every formula, its dependencies and its
\* dependents.
RejectedTextLeavesRegistry ==
  [][ outcome'.op = "setFormula" /\ ~parserParse(outcome'.text).ok
        => outcome'.threw /\ formulas' = formulas ]_vars

\* setFormula has just rejected =SUM(A1 for a slot that holds a formula, in
\* a registry where some formula has dependents.
UnclosedTextRejected ==
  /\ outcome.op = "setFormula" /\ outcome.text = TextUnclosed /\ outcome.threw
  /\ Len(formulas) = MaxFormulas
  /\ \E i \in 1..Len(formulas) : formulas[i].dependents # { }

\* The callback has been invoked once for each kept formula, in order, with
\* the coordinate the formula moves to and "=" followed by the text of its
\* rewritten tree.
CalledOncePerFormula(made, kept, op, r) ==
  /\ Len(made) = Len(kept)
  /\ \A i \in 1..Len(kept) :
       /\ << made[i].row, made[i].col >> = MovedKey(op, kept[i].key, r)
       /\ Len(made[i].formula) >= 1 /\ made[i].formula[1] = "="
       /\ shiftFor(op, r, kept[i].ast).ok
       /\ Tail(made[i].formula) = formatFormula(shiftFor(op, r, kept[i].ast).ast.root)

\* C8, as stated: during every structural edit (a callback being
\* registered) the callback is invoked exactly once for each surviving
\* formula, with its new coordinate and the text of its rewritten tree,
\* starting with "=".
EveryEditCallsOncePerFormula ==
  [][ outcome'.op \in EditOps /\ updateFormulaCallback
        => CalledOncePerFormula(calls', Kept(formulas, outcome'.op, outcome'.row),
                                outcome'.op, outcome'.row) ]_vars

\* C8, amended: during every structural edit that completes without
\* throwing (a callback being registered) the callback is invoked exactly
\* once for each surviving formula, with the coordinate and the text the
\* registry then holds for it, the text starting with "=".
CompletedEditCallsOncePerFormula ==
  [][ outcome'.op \in EditOps /\ updateFormulaCallback /\ ~outcome'.threw
        => /\ CalledOncePerFormula(calls', Kept(formulas, outcome'.op, outcome'.row),
                                   outcome'.op, outcome'.row)
           /\ \A i \in 1..Len(calls') :
                /\ formulas'[i].key = << calls'[i].row, calls'[i].col >>
                /\ calls'[i].formula = << "=" >> \o formatFormula(formulas'[i].ast.root) ]_vars

\* A row insertion at 0 has called back for both formulas of the registry,
\* the first with row 1 and the text =-B2.
InsertionCalledBack ==
  /\ updateFormulaCallback
  /\ outcome.op = "handleRowInsertion" /\ outcome.row = 0 /\ ~outcome.threw
  /\ Len(calls) = 2 /\ Len(formulas) = 2
  /\ calls[1].row = 1 /\ calls[1].formula = << "=", "-", "B", "2" >>

(***************************************************************************)
(* Properties of evaluation, over SpecEval.                                *)
(***************************************************************************)
CellValueTypes == { "number", "string", "error", "empty" }

\* C9: evaluateFormula never throws; for an absent slot it returns type
\* 'empty', and for a registered formula, whatever the engine or the context
\* does, a CellValue whose type is one of number, string, error, empty.
EvaluateFormulaNeverThrows ==
  outcome.op = "evaluateFormula"
    => /\ ~outcome.threw
       /\ outcome.result.type \in CellValueTypes
       /\ ~mapHas(formulas, << outcome.row, outcome.col >>) => outcome.result.type = "empty"

\* A registered formula has been evaluated under a context that throws, and
\* the result is an error value.
EvaluatedUnderThrowingContext ==
  /\ outcome.op = "evaluateFormula" /\ outcome.ctx = "throws"
  /\ mapHas(formulas, << outcome.row, outcome.col >>)
  /\ ~outcome.threw /\ outcome.result.type = "error"

\* The tree calls a function other than SUM, MIN, MAX, AVERAGE, COUNT.
RECURSIVE CallsUnknownFunction(_)
CallsUnknownFunction(n) ==
  CASE n.type = "function" ->
         \/ n.name \notin KnownFunctions
         \/ \E i \in 1..Len(n.args) : CallsUnknownFunction(n.args[i])
    [] n.type = "binary" -> CallsUnknownFunction(n.left) \/ CallsUnknownFunction(n.right)
    [] n.type = "unary" -> CallsUnknownFunction(n.operand)
    [] OTHER -> FALSE

\* C10: setFormula accepts a formula that calls a function other than SUM,
\* MIN, MAX, AVERAGE, COUNT, and evaluating it returns, without throwing, a
\* CellValue of type 'error' whose value starts with '#ERROR:'.
UnknownFunctionEvaluatesToError ==
  /\ outcome.op = "setFormula" /\ outcome.text = TextInvalid => ~outcome.threw
  /\ \A i \in 1..Len(formulas) :
       /\ outcome.op = "evaluateFormula"
       /\ formulas[i].key = << outcome.row, outcome.col >>
       /\ CallsUnknownFunction(formulas[i].ast.root)
       => /\ ~outcome.threw
          /\ outcome.result.type = "error"
          /\ outcome.result.value.kind = "str"
          /\ outcome.result.value.v[1] = "#ERROR: "

\* =INVALID(A1) has been evaluated under the context of numbers, to an
\* error value.
InvalidFunctionEvaluated ==
  /\ outcome.op = "evaluateFormula" /\ outcome.ctx = "numbers"
  /\ outcome.result.type = "error"
  /\ \E i \in 1..Len(formulas) :
       /\ formulas[i].key = << outcome.row, outcome.col >>
       /\ formulas[i].ast.originalFormula = TextInvalid

(***************************************************************************)
(* Properties of the engine's operators and functions.                     *)
(***************************************************************************)
\* The formula evaluated by the last operation, when it is registered.
Evaluated ==
  /\ outcome.op = "evaluateFormula"
  /\ mapHas(formulas, << outcome.row, outcome.col >>)

EvaluatedRoot == mapGet(formulas, << outcome.row, outcome.col >>).ast.root

DivZero == CellValue("error", JsStr(<< "#DIV/0!" >>))

\* The value is one of those the claim lists as coercing to 0: the number 0,
\* an empty or an error value, a string that is not numeric, or a string
\* whose number is 0.
CoercesToZero(val) ==
  \/ val.type \in { "empty", "error" }
  \/ val.type = "number" /\ val.value.kind = "num" /\ val.value.v.num = 0
  \/ /\ val.type = "string"
     /\ \/ Len(val.value.v) = 0
        \/ ~isDigit(val.value.v[1])
        \/ parseFloat(val.value.v).num = 0

EvaluatedCall(name) ==
  Evaluated /\ EvaluatedRoot.type = "function" /\ EvaluatedRoot.name = name

Counted == { "number", "string" }

\* What one argument adds to COUNT: a scalar of a counted type adds one, a
\* range adds one for each of its cells of a counted type.
CountOfArgument(ctx, arg) ==
  IF arg.type = "range"
  THEN Cardinality({ key \in rangeCells(arg) :
                       getCellValue(ctx, key[1], key[2]).val.type \in Counted })
  ELSE IF evaluateNode(ctx, arg).val.type \in Counted THEN 1 ELSE 0

RECURSIVE CountOfArguments(_, _, _)
CountOfArguments(ctx, args, i) ==
  IF i > Len(args) THEN 0
  ELSE CountOfArgument(ctx, args[i]) + CountOfArguments(ctx, args, i + 1)

\* C12: COUNT returns the number of values of type number or string among
\* its arguments, a scalar counted once and each cell of a range counted
\* individually (4 for a 2x2 range of numeric cells).
CountCountsEachCellOfRange ==
  EvaluatedCall(<< "C", "O", "U", "N", "T" >>) /\ outcome.ctx # "throws" =>
    outcome.result =
      CellValue("number", JsNum(Num(CountOfArguments(outcome.ctx, EvaluatedRoot.args, 1))))

Aggregates ==
  { << "S", "U", "M" >>, << "M", "I", "N" >>, << "M", "A", "X" >>,
    << "A", "V", "E", "R", "A", "G", "E" >> }

\* The cells of a range whose value the context gives with type number.
NumberCells(ctx, range) ==
  { key \in rangeCells(range) : getCellValue(ctx, key[1], key[2]).val.type = "number" }

NumberAt(ctx, key) == getCellValue(ctx, key[1], key[2]).val.value.v

RECURSIVE SumOfCells(_, _)
SumOfCells(ctx, keys) ==
  IF keys = { } THEN Num(0)
  ELSE LET key == CHOOSE k \in keys : TRUE
       IN fracAdd(NumberAt(ctx, key), SumOfCells(ctx, keys \ { key }))

\* The sum, minimum, maximum and arithmetic mean of the numbers in `keys`.
AggregateOfCells(name, ctx, keys) ==
  CASE name = << "S", "U", "M" >> -> SumOfCells(ctx, keys)
    [] name = << "M", "I", "N" >> ->
         NumberAt(ctx, CHOOSE k \in keys :
                         \A j \in keys : ~fracLess(NumberAt(ctx, j), NumberAt(ctx, k)))
    [] name = << "M", "A", "X" >> ->
         NumberAt(ctx, CHOOSE k \in keys :
                         \A j \in keys : ~fracLess(NumberAt(ctx, k), NumberAt(ctx, j)))
    [] OTHER ->
         LET sum == SumOfCells(ctx, keys)
         IN Frac(sum.num, sum.den * Cardinality(keys))

\* The values the specification gives for A1 = 10, B1 = 20, A2 = 5, B2 = 15.
OnTestSheet(name) ==
  CASE name = << "S", "U", "M" >> -> Num(50)
    [] name = << "M", "I", "N" >> -> Num(5)
    [] name = << "M", "A", "X" >> -> Num(20)
    [] OTHER -> Frac(25, 2)

\* The evaluated formula applies one of the four aggregates to one range.
AggregateOverRange ==
  /\ Evaluated
  /\ EvaluatedRoot.type = "function"
  /\ EvaluatedRoot.name \in Aggregates
  /\ Len(EvaluatedRoot.args) = 1
  /\ EvaluatedRoot.args[1].type = "range"
  /\ outcome.ctx # "throws"

\* C13: over a range, SUM, MIN, MAX and AVERAGE return the sum, the minimum,
\* the maximum and the mean of exactly the cells of type number (50, 5, 20
\* and 12.5 on the test sheet), and the number 0 when the range has none.
AggregatesTakeNumberCells ==
  AggregateOverRange =>
    LET name == EvaluatedRoot.name
        keys == NumberCells(outcome.ctx, EvaluatedRoot.args[1])
    IN /\ outcome.result.type = "number"
       /\ outcome.result.value.kind = "num"
       /\ outcome.result.value.v =
            (IF keys = { } THEN Num(0) ELSE AggregateOfCells(name, outcome.ctx, keys))
       /\ outcome.ctx = "numbers" /\ rangeCells(EvaluatedRoot.args[1]) = (0..1) \X (0..1) =>
            outcome.result.value.v = OnTestSheet(name)

\* =AVERAGE(A1:B2) has been evaluated on the sheet of mixed types, where
\* only A1 = 10 and B2 = 15 are numbers, and gave 12.5.
AveragedMixedRange ==
  /\ AggregateOverRange
  /\ EvaluatedRoot.name = << "A", "V", "E", "R", "A", "G", "E" >>
  /\ outcome.ctx = "mixed"
  /\ Cardinality(NumberCells("mixed", EvaluatedRoot.args[1])) = 2
  /\ outcome.result = CellValue("number", JsNum(Frac(25, 2)))

(***************************************************************************)
(* Properties of the parser and of the formatter.                          *)
(***************************************************************************)
ComparisonTexts ==
  { TextEqual, TextLess, TextGreater, TextLessEqual, TextGreaterEqual, TextNotEqual }

\* The operator written between A1 and B1 in a comparison text.
WrittenOperator(text) ==
  CASE text = TextEqual -> "="
    [] text = TextLess -> "<"
    [] text = TextGreater -> ">"
    [] text = TextLessEqual -> "<="
    [] text = TextGreaterEqual -> ">="
    [] OTHER -> "<>"

\* C14: each of the six comparison operators between two operands is
\* accepted and parsed to a binary node that carries exactly that operator;
\* =A1<=B1, =A1>=B1 and =A1<>B1 give the operators <=, >= and <>.
ComparisonParsesToItsOperator ==
  outcome.op = "setFormula" /\ outcome.text \in ComparisonTexts =>
    /\ ~outcome.threw
    /\ mapHas(formulas, << 0, 0 >>)
    /\ LET root == mapGet(formulas, << 0, 0 >>).ast.root
       IN /\ root.type = "binary"
          /\ root.operator = WrittenOperator(outcome.text)
          /\ root.left.type = "cell"
          /\ root.right.type = "cell"

\* C15: for every text the parser accepts, the formatted tree, parsed again
\* behind a '=', gives a tree identical to the first one; parenthesised
\* sub-expressions, string literals and unary operators included.
FormattedTextParsesToSameTree ==
  outcome.op = "setFormula" /\ ~outcome.threw =>
    LET root == mapGet(formulas, << 0, 0 >>).ast.root
        again == parse(<< "=" >> \o formatFormula(root))
    IN again.ok /\ again.ast.root = root

(***************************************************************************)
(* Properties of the sparse store.                                         *)
(***************************************************************************)
\* The same JavaScript value.
SameValue(a, b) == a.kind = b.kind /\ a.v = b.v

\* A getCell that follows a setCell at the same cell.
ReadsBack ==
  /\ outcome.op = "setCell"
  /\ outcome'.op = "getCell"
  /\ outcome'.row = outcome.row
  /\ outcome'.col = outcome.col

\* C16: getCell after setCell(r, c, v) returns v for every v that is not
\* null, undefined or '' (0 and false included), and null after
\* setCell(r, c, '').
SetThenGetReturnsValue ==
  [][ ReadsBack =>
        /\ outcome.value.kind \notin { "null", "undefined", "str" } =>
             SameValue(outcome'.result, outcome.value)
        /\ outcome.value.kind = "str" =>
             IF outcome.value.v = << >>
             THEN outcome'.result.kind = "null"
             ELSE SameValue(outcome'.result, outcome.value) ]_vars

RECURSIVE EntriesIn(_, _)
\* The number of entries of the blocks whose keys are in `keys`.
EntriesIn(m, keys) ==
  IF keys = { } THEN 0
  ELSE LET key == CHOOSE k \in keys : TRUE
       IN Cardinality(DOMAIN m.blocks[key]) + EntriesIn(m, keys \ { key })

\* C17: in every state reached by setCell, removeCell, clear, optimize and
\* importFromJSON, getStats().totalCells is the sum of the entry counts of
\* the blocks.
TotalCellsCountsEntries ==
  getStats(sparseMatrix).totalCells = EntriesIn(sparseMatrix, DOMAIN sparseMatrix.blocks)

\* C18: after any sequence of setCell, removeCell and clear no block of the
\* map is empty, and the map has no block once no cell is left.
NoEmptyBlock ==
  /\ \A key \in DOMAIN sparseMatrix.blocks : DOMAIN sparseMatrix.blocks[key] # { }
  /\ (\A row \in Coords, col \in Coords : ~hasCell(sparseMatrix, row, col)) =>
       getStats(sparseMatrix).totalBlocks = 0

\* removeCell has removed the last cell of the store.
LastCellRemoved ==
  /\ outcome.op = "removeCell"
  /\ outcome.found
  /\ getStats(sparseMatrix).totalCells = 0
  /\ getStats(sparseMatrix).totalBlocks = 0

\* The coordinates at which two stores are compared: those the model writes
\* and the line beyond them.
Observed == 0 .. MaxCoord + 1

SameCells(a, b) ==
  \A row \in Observed, col \in Observed :
    SameValue(getCell(a, row, col), getCell(b, row, col))

\* The store holds a value that JSON has no notation for.
HoldsInfinity(m) ==
  \E key \in DOMAIN m.blocks : \E cell \in DOMAIN m.blocks[key] :
    m.blocks[key][cell].kind = "infinity"

\* C19 as stated: a new store that imports the export of a store reached by
\* setCell and removeCell has the same blockSize, totalCells and
\* totalBlocks and returns the same value at every coordinate.
ImportedStoreEqualsExported ==
  outcome.op = "importExported" =>
    /\ ~outcome.threw
    /\ getStats(outcome.result) = getStats(sparseMatrix)
    /\ SameCells(outcome.result, sparseMatrix)

\* C19: the same, for the stores whose values JSON can write; a stored
\* Infinity is written as null, so that the counts still agree and getCell
\* of the new store returns null where the exported store returns Infinity.
ImportedStoreEqualsExportedJson ==
  outcome.op = "importExported" =>
    /\ ~outcome.threw
    /\ getStats(outcome.result) = getStats(sparseMatrix)
    /\ \A row \in Observed, col \in Observed :
         LET was == getCell(sparseMatrix, row, col)
             is == getCell(outcome.result, row, col)
         IN IF was.kind = "infinity" THEN is.kind = "null" ELSE SameValue(is, was)
    /\ ~HoldsInfinity(sparseMatrix) => SameCells(outcome.result, sparseMatrix)

\* A store of two blocks, its values strings, has been exported and
\* imported.
TwoBlocksImported ==
  /\ outcome.op = "importExported"
  /\ ~HoldsInfinity(sparseMatrix)
  /\ getStats(sparseMatrix).totalBlocks = 2
  /\ getStats(outcome.result).totalBlocks = 2
  /\ getCell(sparseMatrix, 0, 0).kind = "str"
  /\ SameCells(outcome.result, sparseMatrix)

\* The text is JSON for an object whose `blocks` is an object of objects.
WellFormed(json) ==
  /\ json.valid
  /\ json.data.kind = "object"
  /\ "blocks" \in DOMAIN json.data.v
  /\ json.data.v["blocks"].kind = "object"
  /\ \A key \in DOMAIN json.data.v["blocks"].v :
       json.data.v["blocks"].v[key].kind = "object"

\* C20: importFromJSON throws the format error for every text that is not
\* JSON, or whose `blocks` is missing or is not a map of maps (a string, an
\* array, a scalar for a block).
MalformedImportThrows ==
  outcome.op = "importFromJSON" /\ ~WellFormed(PayloadText(outcome.value)) =>
    outcome.threw

\* The entries of a list of cells that carry the coordinate (row, col).
EntriesAt(cells, row, col) ==
  { i \in 1..Len(cells) : cells[i].row = row /\ cells[i].col = col }

\* C21: getAllCells returns exactly one entry for each present cell, with
\* the (row, col) it was stored under and the stored value, and no entry
\* for an absent cell, in whatever block the cell lies.
AllCellsCarryStoredCoordinates ==
  outcome.op = "getAllCells" =>
    \A row \in Coords, col \in Coords :
      IF hasCell(sparseMatrix, row, col)
      THEN /\ Cardinality(EntriesAt(outcome.result, row, col)) = 1
           /\ \A i \in EntriesAt(outcome.result, row, col) :
                SameValue(outcome.result[i].value,
                          sparseMatrix.blocks[getBlockKey(sparseMatrix, row, col)]
                                             [getCellKey(sparseMatrix, row, col)])
      ELSE EntriesAt(outcome.result, row, col) = { }

\* C22: every key of the registry, and every cell reference and range
\* endpoint of every registered tree, has row >= 0 and col >= 0.
CoordinatesAreNonNegative ==
  \A i \in 1..Len(formulas) :
    /\ formulas[i].key[1] >= 0 /\ formulas[i].key[2] >= 0
    /\ \A ref \in References(formulas[i].ast.root) : ref.row >= 0 /\ ref.col >= 0

\* The elements of a cell array at the coordinate (row, col).
CellsAt(cells, row, col) ==
  { k \in 1..Len(cells.items) : cells.items[k].row = row /\ cells.items[k].col = col }

InViewport(v, row, col) ==
  /\ v.startRow <= row /\ row < v.endRow
  /\ v.startCol <= col /\ col < v.endCol

\* The list getVisibleCells returned is the list of the current viewport:
\* one cell for each coordinate inside it and no other cell.
ReturnedCellsAreTheViewport ==
  outcome.op = "getVisibleCells" =>
    /\ \A row \in -MaxGridSize .. MaxGridSize, col \in -MaxGridSize .. MaxGridSize :
         Cardinality(CellsAt(outcome.result, row, col)) =
           IF InViewport(virtualGrid.viewport, row, col) THEN 1 ELSE 0
    /\ \A k \in 1..Len(outcome.result.items) :
         InViewport(virtualGrid.viewport, outcome.result.items[k].row,
                    outcome.result.items[k].col)

\* A getVisibleCells that directly follows a getVisibleCells returns the
\* array object the first one returned.
SecondCallReturnsSameArray ==
  (outcome.op = "getVisibleCells" /\ outcome'.op = "getVisibleCells") =>
    outcome'.result.id = outcome.result.id

\* C23: getVisibleCells is cache-coherent: called twice in a row it returns
\* the same array object, and after any sequence of viewport-changing
\* operations it returns exactly one cell for each (row, col) of the
\* current viewport, never the list of an earlier viewport.
VisibleCellsAreCacheCoherent ==
  /\ []ReturnedCellsAreTheViewport
  /\ [][SecondCallReturnsSameArray]_vars

\* getVisibleCells has returned its second array, for a viewport that an
\* operation moved off the origin after the first array was built.
CellsRebuiltAfterViewportChange ==
  /\ outcome.op = "getVisibleCells"
  /\ outcome.result.id = 2
  /\ virtualGrid.viewport.startRow > 0
  /\ Len(outcome.result.items) > 1
  /\ virtualGrid.cachedCells.def
  /\ virtualGrid.cachedCells.v.id = 2

\* The cell that the formula of `cell` refers to.
Referred(cell) ==
  LET root == mapGet(formulas, cell).ast.root IN << root.row, root.col >>

\* `cell` holds a formula that refers to itself, or to a formula that
\* refers back to it.
OnCycle(cell) ==
  /\ mapHas(formulas, cell)
  /\ \/ Referred(cell) = cell
     \/ /\ mapHas(formulas, Referred(cell))
        /\ Referred(Referred(cell)) = cell

EvaluatingOnCycle ==
  /\ outcome.op = "evaluateFormula"
  /\ OnCycle(<< outcome.row, outcome.col >>)

CycleFormulaAccepted == outcome.op = "setFormula" => ~outcome.threw

CyclicEvaluationStarted == EvaluatingOnCycle /\ ~outcome.done

CyclicEvaluationReturnedError ==
  /\ EvaluatingOnCycle
  /\ outcome.done
  /\ outcome.result.type = "error"
  /\ outcome.result.value.v = errorValue(RangeErrorMsg).value.v

\* The calls in progress never exceed what the stack holds, and while a
\* cyclic evaluation descends every frame is a cell of the cycle.
NothingDetectsTheCycle ==
  (EvaluatingOnCycle /\ ~outcome.done /\ ~callStack.returned.def) =>
    \A i \in 1..Len(callStack.frames) : OnCycle(callStack.frames[i])

EditCompleted ==
  /\ outcome.op \in EditOps
  /\ ~outcome.threw
  /\ editProgress.pc = "idle"
  /\ editProgress.op = outcome.op

\* The number of callbacks a completed edit made: one for each formula of
\* the new registry when a callback is registered.
CallbacksMade == IF updateFormulaCallback THEN Len(formulas) ELSE 0

SameEvent(e, kind, key) == e.kind = kind /\ e.row = key[1] /\ e.col = key[2]

\* C25: a structural edit that succeeds makes all its updateFormula
\* callbacks first, then replaces the registry, then rebuilds the
\* dependents, then runs the re-evaluation sweep; the sweep evaluates each
\* formula of the new registry exactly once, in the registry's iteration
\* order, whatever the dependents are.
EditRunsInOrder ==
  EditCompleted =>
    LET log == editProgress.log
        c == CallbacksMade
        n == Len(formulas)
    IN /\ Len(log) = c + 2 + n
       /\ \A i \in 1..c : SameEvent(log[i], "callback", formulas[i].key)
       /\ log[c + 1].kind = "replace"
       /\ log[c + 2].kind = "rebuild"
       /\ \A i \in 1..n : SameEvent(log[c + 2 + i], "evaluate", formulas[i].key)
       /\ formulas = structuralEdit(editProgress.before, editProgress.op, editProgress.at,
                                    updateFormulaCallback).formulas
       /\ calls = structuralEdit(editProgress.before, editProgress.op, editProgress.at,
                                 updateFormulaCallback).calls

\* An edit has completed with callbacks on a registry of two formulas whose
\* first formula depends on the second: the sweep evaluated the first one
\* before the formula it depends on.
DependentEvaluatedFirst ==
  /\ EditCompleted
  /\ updateFormulaCallback
  /\ Len(formulas) = 2
  /\ formulas[2].key \in formulas[1].dependencies
  /\ formulas[1].key \in formulas[2].dependents
  /\ Len(editProgress.log) = 6
  /\ SameEvent(editProgress.log[5], "evaluate", formulas[1].key)

\* The nodes a text denotes.
CellNode(row, col) ==
  [ type |-> "cell", row |-> row, col |-> col, absoluteRow |-> FALSE, absoluteCol |-> FALSE ]

NumberNode(n) == [ type |-> "number", value |-> Num(n) ]

UnaryNode(operator, operand) ==
  [ type |-> "unary", operator |-> operator, operand |-> operand ]

RangeNode(startRow, startCol, endRow, endCol, absStartRow, absStartCol, absEndRow, absEndCol) ==
  [ type |-> "range", startRow |-> startRow, startCol |-> startCol,
    endRow |-> endRow, endCol |-> endCol,
    absoluteStartRow |-> absStartRow, absoluteStartCol |-> absStartCol,
    absoluteEndRow |-> absEndRow, absoluteEndCol |-> absEndCol ]

A1 == CellNode(0, 0)

B1 == CellNode(0, 1)

\* setFormula has just been given `text`.
Given(text) == outcome.op = "setFormula" /\ outcome.text = text

\* The tree registered by the setFormula just made.
RegisteredRoot == mapGet(formulas, << outcome.row, outcome.col >>).ast.root

ParsesAs(text, tree) ==
  Given(text) =>
    /\ ~outcome.threw
    /\ mapHas(formulas, << outcome.row, outcome.col >>)
    /\ RegisteredRoot = tree

\* C26: the parser nests operators by precedence and associates operators
\* of one level to the left: a+b*c is +(a, *(b, c)), a*b^c is
\* *(a, ^(b, c)), a=b+c is =(a, +(b, c)), a-b-c is -(-(a, b), c), a unary
\* sign binds tighter than '^' (-a^b is ^(-(a), b)), and a parenthesised
\* sub-expression is one primary.
OperatorsNestByPrecedence ==
  /\ ParsesAs(TextPrecedence,
              BinaryNode("+", A1, BinaryNode("*", B1, NumberNode(2))))
  /\ ParsesAs(TextMulPow,
              BinaryNode("*", A1, BinaryNode("^", B1, NumberNode(2))))
  /\ ParsesAs(TextEqualSum,
              BinaryNode("=", A1, BinaryNode("+", B1, NumberNode(2))))
  /\ ParsesAs(TextLeftSubtraction,
              BinaryNode("-", BinaryNode("-", A1, B1), NumberNode(2)))
  /\ ParsesAs(TextLeftDivision,
              BinaryNode("/", BinaryNode("/", A1, B1), NumberNode(2)))
  /\ ParsesAs(TextPowPow,
              BinaryNode("^", BinaryNode("^", A1, B1), NumberNode(2)))
  /\ ParsesAs(TextUnaryPow,
              BinaryNode("^", UnaryNode("-", A1), NumberNode(2)))
  /\ ParsesAs(TextParenthesised,
              BinaryNode("*", BinaryNode("+", A1, B1), NumberNode(2)))
  /\ ParsesAs(TextUnaryParenthesised,
              UnaryNode("-", BinaryNode("+", A1, B1)))

\* =-A1^2 has been registered as a power whose base is the negation.
SignedBaseRegistered ==
  /\ Given(TextUnaryPow)
  /\ ~outcome.threw
  /\ RegisteredRoot.type = "binary"
  /\ RegisteredRoot.operator = "^"
  /\ RegisteredRoot.left.type = "unary"

\* setFormula threw and left the slot as parse's failure leaves it: with
\* no tree of this text.
ParseThrew ==
  /\ outcome.threw
  /\ ~parserParse(outcome.text).ok
  /\ mapHas(formulas, << outcome.row, outcome.col >>) =>
       mapGet(formulas, << outcome.row, outcome.col >>).ast.originalFormula # outcome.text

\* C27: parse throws on an unterminated string literal, an unmatched
\* opening or closing parenthesis, a malformed cell reference, input left
\* after a complete expression, and a ':' whose left or right operand is not
\* a single cell reference; a ':' between two cell references gives a range
\* node with both endpoints and the absolute flag of each axis.
MalformedTextsThrowAndRangesParse ==
  /\ \A text \in MalformedTexts : Given(text) => ParseThrew
  /\ ParsesAs(TextPlainRange, RangeNode(0, 0, 1, 1, FALSE, FALSE, FALSE, FALSE))
  /\ ParsesAs(TextAbsoluteRange, RangeNode(0, 0, 1, 1, TRUE, TRUE, TRUE, FALSE))
  /\ ParsesAs(TextMixedRange,
              [ type |-> "function", name |-> << "M", "A", "X" >>,
                args |-> << RangeNode(0, 0, 0, 1, TRUE, FALSE, FALSE, TRUE) >> ])
  /\ ParsesAs(TextSumRange,
              [ type |-> "function", name |-> << "S", "U", "M" >>,
                args |-> << RangeNode(0, 0, 1, 1, FALSE, FALSE, FALSE, FALSE) >> ])

\* A ':' whose right operand is a sum has been refused while another
\* formula with a range stays registered.
RangeOfSumRefused ==
  /\ Given(TextRangeRightSum)
  /\ outcome.threw
  /\ Len(formulas) = 1
  /\ formulas[1].ast.root.type = "range"

\* A deletion has thrown out of its loop.
DeletionThrew ==
  /\ outcome.op \in DeletionOps
  /\ outcome.threw
  /\ editProgress.pc = "idle"
  /\ editProgress.op = outcome.op

\* The formulas the loop went through before the one it threw at, those on
\* the deleted row or column apart.
VisitedBeforeThrow ==
  { j \in 1..(editProgress.i - 1) :
      ~isDropped(editProgress.op, editProgress.at, editProgress.before[j].key) }

\* C28: when handleRowDeletion or handleColumnDeletion throws, the registry
\* is what it was before the call, keys, trees, dependencies and dependents;
\* what has taken effect is the callbacks made before the throw.
ThrownDeletionKeepsRegistry ==
  DeletionThrew =>
    /\ formulas = editProgress.before
    /\ Len(calls) = IF updateFormulaCallback THEN Cardinality(VisitedBeforeThrow) ELSE 0
    /\ Len(editProgress.log) = Len(calls)
    /\ \A i \in 1..Len(calls) :
         SameEvent(editProgress.log[i], "callback", << calls[i].row, calls[i].col >>)

\* A row deletion has thrown at the second formula after the callback for
\* the first, in a registry whose formulas have dependents.
RowDeletionThrewAtSecond ==
  /\ DeletionThrew
  /\ outcome.op = "handleRowDeletion"
  /\ Len(calls) = 1
  /\ Len(formulas) = 2
  /\ editProgress.i = 2
  /\ \E i \in 1..2 : formulas[i].dependents # { }

\* The step is a structural edit that succeeded.
EditSucceeds == outcome'.op \in EditOps /\ ~outcome'.threw

\* Every formula the edit keeps is found at its new coordinate with the
\* text it had.
EditKeepsOriginalText ==
  EditSucceeds =>
    \A i \in 1..Len(formulas) :
      ~isDropped(outcome'.op, outcome'.row, formulas[i].key) =>
        LET key == newKey(outcome'.op, outcome'.row, formulas[i].key)
        IN getFormula(formulas', key[1], key[2]) = formulas[i].ast.originalFormula

\* Every stored text is a text setFormula was given and accepted.
StoredTextsWereGiven ==
  \A i \in 1..Len(formulas) :
    /\ formulas[i].ast.originalFormula \in Texts
    /\ parserParse(formulas[i].ast.originalFormula).ok

\* C29: structural edits never change the original text of a formula:
\* after successful insertions and deletions getFormula at the relocated
\* coordinate returns the string setFormula was given, even where the tree
\* and the text handed to the callback hold shifted references.
EditsKeepOriginalText ==
  /\ []StoredTextsWereGiven
  /\ [][EditKeepsOriginalText]_vars

\* A row insertion has moved a formula and shifted its references: the
\* callback got a text that differs from the one getFormula returns, and the
\* tree is no longer the tree of that text.
StoredTextIsStale ==
  /\ outcome.op = "handleRowInsertion" /\ ~outcome.threw
  /\ Len(calls) >= 1
  /\ mapHas(formulas, << calls[1].row, calls[1].col >>)
  /\ getFormula(formulas, calls[1].row, calls[1].col) # calls[1].formula
  /\ mapGet(formulas, << calls[1].row, calls[1].col >>).ast.root
       # parserParse(getFormula(formulas, calls[1].row, calls[1].col)).ast.root

\* The step is an insertion followed by the deletion at the same index.
RoundTripRestores ==
  outcome'.op \in RoundTripOps =>
    /\ ~outcome'.threw
    /\ Len(formulas') = Len(formulas)
    /\ \A i \in 1..Len(formulas) :
         /\ mapHas(formulas', formulas[i].key)
         /\ mapGet(formulas', formulas[i].key).ast = formulas[i].ast
         /\ mapGet(formulas', formulas[i].key).dependencies = formulas[i].dependencies

\* C30: handleRowInsertion(k) followed by handleRowDeletion(k) never throws
\* and restores the registry: the same keys, the same tree at each key and
\* the same dependencies; likewise handleColumnInsertion(k) followed by
\* handleColumnDeletion(k).
InsertionThenDeletionRestores == [][RoundTripRestores]_vars

\* Row 0 has been inserted and deleted again under two formulas that the
\* insertion moved, one with a reference that it shifted; each pass made
\* its two callbacks.
RowInsertedAndDeleted ==
  /\ outcome.op = "insertThenDeleteRow" /\ outcome.row = 0 /\ ~outcome.threw
  /\ Len(formulas) = 2
  /\ Len(calls) = 4
  /\ calls[1].row = formulas[1].key[1] + 1
  /\ calls[3].row = formulas[1].key[1]
  /\ \E i \in 1..2 : \E ref \in References(formulas[i].ast.root) : ~ref.absoluteRow

====
